---- MODULE Spec2Model ----
(***************************************************************************)
(* EasyAccess: the typed value model (iotypemodel), the IOType registry    *)
(* (IOTypeStack), the client's shared IOType cache and the RemoteAlgorithm *)
(* proxy (argument building, dispatch, polling / streaming wait, cancel).  *)
(***************************************************************************)
EXTENDS Integers, Sequences, FiniteSets, TLC

(***************************************************************************)
(* Bounds of the model.                                                    *)
(***************************************************************************)
MaxNum == 3          \* raw integers and condition bounds range over -1..MaxNum
MaxPolls == 2        \* non-terminal replies one call may receive
MaxCalls == 2        \* calls (dispatches) made on the proxy
MaxProxies == 3      \* proxies constructed over one client
MaxRecords == 2      \* records added to a registry
MaxPage == 3         \* skip and limit of a listing range over -1..MaxPage
MaxBatch == 2        \* names in a list or tuple that indexes the client

(***************************************************************************)
(* Python values.  Every value has the same shape: t is the Python type,   *)
(* n the magnitude of an int or of a finite float, k the float class, s    *)
(* the characters of a str, items the elements of a list.                  *)
(***************************************************************************)
PyNone == [t |-> "None", n |-> 0, k |-> "fin", s |-> <<>>, items |-> <<>>]
PyInt(i) == [t |-> "int", n |-> i, k |-> "fin", s |-> <<>>, items |-> <<>>]
PyFloat(i) == [t |-> "float", n |-> i, k |-> "fin", s |-> <<>>, items |-> <<>>]
PyNaN == [t |-> "float", n |-> 0, k |-> "nan", s |-> <<>>, items |-> <<>>]
PyInf == [t |-> "float", n |-> 0, k |-> "inf", s |-> <<>>, items |-> <<>>]
PyNegInf == [t |-> "float", n |-> 0, k |-> "ninf", s |-> <<>>, items |-> <<>>]
PyStr(chars) == [t |-> "str", n |-> 0, k |-> "fin", s |-> chars, items |-> <<>>]
PyList(xs) == [t |-> "list", n |-> 0, k |-> "fin", s |-> <<>>, items |-> xs]

Digits == {"0", "1", "2", "3", "4", "5", "6", "7", "8", "9"}

DigitVal(c) ==
    CASE c = "0" -> 0 [] c = "1" -> 1 [] c = "2" -> 2 [] c = "3" -> 3
      [] c = "4" -> 4 [] c = "5" -> 5 [] c = "6" -> 6 [] c = "7" -> 7
      [] c = "8" -> 8 [] c = "9" -> 9

DigitChar(d) ==
    CASE d = 0 -> "0" [] d = 1 -> "1" [] d = 2 -> "2" [] d = 3 -> "3"
      [] d = 4 -> "4" [] d = 5 -> "5" [] d = 6 -> "6" [] d = 7 -> "7"
      [] d = 8 -> "8" [] d = 9 -> "9"

RECURSIVE DigitsVal(_)
DigitsVal(chars) ==
    IF chars = <<>> THEN 0
    ELSE DigitsVal(SubSeq(chars, 1, Len(chars) - 1)) * 10 + DigitVal(chars[Len(chars)])

RECURSIVE NatChars(_)
NatChars(i) ==
    IF i < 10 THEN <<DigitChar(i)>>
    ELSE NatChars(i \div 10) \o <<DigitChar(i % 10)>>

IntChars(i) == IF i < 0 THEN <<"-">> \o NatChars(0 - i) ELSE NatChars(i)

AllDigits(chars) == Len(chars) >= 1 /\ \A i \in 1..Len(chars) : chars[i] \in Digits

(***************************************************************************)
(* Outcome of a validation step: a returned value or a raised error.       *)
(* error/error.py: ErrorStack.__getitem__ raises the registered kind of    *)
(* the id, or the fixed fallback for an unregistered id.                   *)
(***************************************************************************)
error_stack ==
    [id \in {"IO-META-NUM", "IO-META-NUM-MIN", "IO-META-NUM-MAX", "IO-META-NUM-MINMAX",
             "IO-META-NUM-IRR", "IO-META-STR", "IO-META-STR-IRR", "IO-META-STR-NM",
             "IO-META-NUMARR", "IO-META-NUMARR-IRR"} |->
        CASE id \in {"IO-META-NUM", "IO-META-STR", "IO-META-NUMARR"} -> "IOTypeMetaError"
          [] id \in {"IO-META-NUM-MIN", "IO-META-NUM-MAX", "IO-META-STR-NM"} -> "IOTypeConditionMatchError"
          [] OTHER -> "IOTypeConditionFormatError"]

Ok(v) == [ok |-> TRUE, val |-> v, err |-> "", kind |-> ""]

Raised(errid, errkind) == [ok |-> FALSE, val |-> PyNone, err |-> errid, kind |-> errkind]

ErrorStackGetItemMissingKey(errid) ==
    IF errid \notin DOMAIN error_stack
    THEN Raised("KeyError", "KeyError")
    ELSE Raised(errid, error_stack[errid])

ErrorStackGetItem(errid) ==
    IF errid \notin DOMAIN error_stack
    THEN Raised("ERR-UNKNOWN", "RuntimeError")
    ELSE Raised(errid, error_stack[errid])

\* The info text registered with each id, and ErrorStack._err_unknown.
error_info ==
    [id \in DOMAIN error_stack |->
        CASE id = "IO-META-NUM" -> "Not float data"
          [] id = "IO-META-NUM-MIN" -> "Value smaller than min"
          [] id = "IO-META-NUM-MAX" -> "Value larger than max"
          [] id = "IO-META-NUM-MINMAX" -> "Min > Max"
          [] id \in {"IO-META-NUM-IRR", "IO-META-STR-IRR"} -> "Irregular conditional format"
          [] id = "IO-META-STR" -> "Not string data"
          [] id = "IO-META-STR-NM" -> "Regular expression not match"
          [] id = "IO-META-NUMARR" -> "Not float array"
          [] OTHER -> "Float array not support condition"]

err_unknown == <<"ERR-UNKNOWN", "Unknown error", "RuntimeError">>

\* The message of the error ErrorStack.__getitem__ raises: f'[{errid}] {info}'.
ErrorStackMessage(errid) ==
    IF errid \notin DOMAIN error_stack
    THEN "[" \o err_unknown[1] \o "] " \o err_unknown[2]
    ELSE "[" \o errid \o "] " \o error_info[errid]

(***************************************************************************)
(* float(data): an int or a float converts, a str is parsed (decimal       *)
(* digits with an optional sign, "nan", "inf", "-inf"), anything else      *)
(* fails.                                                                  *)
(***************************************************************************)
FloatOfChars(chars) ==
    IF chars = <<"n", "a", "n">> THEN Ok(PyNaN)
    ELSE IF chars = <<"i", "n", "f">> THEN Ok(PyInf)
    ELSE IF chars = <<"-", "i", "n", "f">> THEN Ok(PyNegInf)
    ELSE IF AllDigits(chars) THEN Ok(PyFloat(DigitsVal(chars)))
    ELSE IF Len(chars) >= 2 /\ chars[1] = "-" /\ AllDigits(Tail(chars))
         THEN Ok(PyFloat(0 - DigitsVal(Tail(chars))))
    ELSE Raised("ValueError", "ValueError")

PyFloatOf(data) ==
    CASE data.t = "int" -> Ok(PyFloat(data.n))
      [] data.t = "float" -> Ok(data)
      [] data.t = "str" -> FloatOfChars(data.s)
      [] OTHER -> Raised("TypeError", "TypeError")

(***************************************************************************)
(* Comparison of floats as the hardware does it: every comparison with a   *)
(* NaN is false.                                                           *)
(***************************************************************************)
FloatLT(x, y) ==
    /\ x.k # "nan"
    /\ y.k # "nan"
    /\ \/ x.k = "ninf" /\ y.k # "ninf"
       \/ x.k # "inf" /\ y.k = "inf"
       \/ x.k = "fin" /\ y.k = "fin" /\ x.n < y.n

FloatGT(x, y) == FloatLT(y, x)

(***************************************************************************)
(* x >= y and x > y on Python values, as the condition check applies them  *)
(* to the two bounds of a number condition: numbers are compared by value, *)
(* strings by the code points of their characters, and a number cannot be  *)
(* compared with a string (TypeError).                                     *)
(***************************************************************************)
CharCode(c) ==
    CASE c = "-" -> 45 [] c = "." -> 46 [] c \in Digits -> 48 + DigitVal(c)
      [] c = "a" -> 97 [] c = "f" -> 102 [] c = "i" -> 105 [] c = "n" -> 110
      [] OTHER -> 0

RECURSIVE CharsGT(_, _)
CharsGT(x, y) ==
    IF x = <<>> THEN FALSE
    ELSE IF y = <<>> THEN TRUE
    ELSE IF CharCode(Head(x)) # CharCode(Head(y)) THEN CharCode(Head(x)) > CharCode(Head(y))
    ELSE CharsGT(Tail(x), Tail(y))

Compared(b) == [ok |-> TRUE, val |-> b]

NotComparable == [ok |-> FALSE, val |-> FALSE]

IsNumber(x) == x.t \in {"int", "float"}

PyGT(x, y) ==
    IF IsNumber(x) /\ IsNumber(y) THEN Compared(FloatGT(x, y))
    ELSE IF x.t = "str" /\ y.t = "str" THEN Compared(CharsGT(x.s, y.s))
    ELSE NotComparable

PyGE(x, y) ==
    IF IsNumber(x) /\ IsNumber(y) THEN Compared(FloatGT(x, y) \/ (x.k = y.k /\ x.k # "nan" /\ x.n = y.n))
    ELSE IF x.t = "str" /\ y.t = "str" THEN Compared(CharsGT(x.s, y.s) \/ x.s = y.s)
    ELSE NotComparable

(***************************************************************************)
(* str(data) and repr of the elements of a list.                           *)
(***************************************************************************)
FloatChars(x) ==
    CASE x.k = "nan" -> <<"n", "a", "n">>
      [] x.k = "inf" -> <<"i", "n", "f">>
      [] x.k = "ninf" -> <<"-", "i", "n", "f">>
      [] OTHER -> IntChars(x.n) \o <<".", "0">>

ScalarChars(data) ==
    CASE data.t = "None" -> <<"N", "o", "n", "e">>
      [] data.t = "int" -> IntChars(data.n)
      [] data.t = "float" -> FloatChars(data)
      [] OTHER -> data.s

ReprChars(data) ==
    IF data.t = "str" THEN <<"'">> \o data.s \o <<"'">> ELSE ScalarChars(data)

RECURSIVE JoinRepr(_)
JoinRepr(xs) ==
    IF xs = <<>> THEN <<>>
    ELSE IF Len(xs) = 1 THEN ReprChars(xs[1])
    ELSE ReprChars(xs[1]) \o <<",", " ">> \o JoinRepr(Tail(xs))

PyStrOf(data) ==
    IF data.t = "list" THEN PyStr(<<"[">> \o JoinRepr(data.items) \o <<"]">>)
    ELSE PyStr(ScalarChars(data))

(***************************************************************************)
(* Conditions.  t is the Python type of the condition payload: None, a     *)
(* dict (min and max are its entries, PyNone when the key is missing), a   *)
(* str (pat is the regular expression, a sequence of atoms: a character    *)
(* class and a repetition) or anything else.                               *)
(***************************************************************************)
CondNone == [t |-> "None", min |-> PyNone, max |-> PyNone, pat |-> <<>>]
CondDict(lo, hi) == [t |-> "dict", min |-> lo, max |-> hi, pat |-> <<>>]
CondStr(p) == [t |-> "str", min |-> PyNone, max |-> PyNone, pat |-> p]
CondOther == [t |-> "int", min |-> PyNone, max |-> PyNone, pat |-> <<>>]

Atom(c, r) == [cls |-> c, rep |-> r]

Chars == Digits \cup {"a", "n", "i", "f", "-", ".", ",", " ", "[", "]", "'", "N", "o", "e"}

ClassChars(cls) ==
    CASE cls = "digit" -> Digits
      [] cls = "any" -> Chars
      [] OTHER -> {cls}

RepCounts(rep, run) ==
    CASE rep = "one" -> {1} \cap (0..run)
      [] rep = "plus" -> 1..run
      [] rep = "star" -> 0..run
      [] rep = "opt" -> {0, 1} \cap (0..run)

(***************************************************************************)
(* The matcher of the re module: MatchEnds is the set of offsets at which  *)
(* a match of pat that starts at offset i can end (the engine backtracks   *)
(* over the repetition counts).                                            *)
(***************************************************************************)
RECURSIVE ClassRun(_, _, _)
ClassRun(cls, text, i) ==
    IF i < Len(text) /\ text[i + 1] \in ClassChars(cls)
    THEN 1 + ClassRun(cls, text, i + 1)
    ELSE 0

RECURSIVE MatchEnds(_, _, _)
MatchEnds(pat, text, i) ==
    IF pat = <<>> THEN {i}
    ELSE UNION {MatchEnds(Tail(pat), text, i + c) :
                    c \in RepCounts(pat[1].rep, ClassRun(pat[1].cls, text, i))}

re_match(pat, text) == MatchEnds(pat, text, 0) # {}

re_search(pat, text) == \E i \in 0..Len(text) : MatchEnds(pat, text, i) # {}

re_fullmatch(pat, text) == Len(text) \in MatchEnds(pat, text, 0)

(***************************************************************************)
(* iotypemodel/meta_model.py                                               *)
(***************************************************************************)
NumberFormat(data) ==
    LET r == PyFloatOf(data)
    IN  IF r.ok THEN r ELSE ErrorStackGetItem("IO-META-NUM")

\* _check with min > max in place of min >= max.
NumberCheckLax(meta_data, condition) ==
    IF condition.t = "None" THEN Ok(meta_data)
    ELSE IF condition.t = "dict" THEN
        LET both == condition.min # PyNone /\ condition.max # PyNone
            order == PyGT(condition.min, condition.max)
            lo == PyFloatOf(condition.min)
            hi == PyFloatOf(condition.max)
        IN  IF both /\ ~order.ok THEN Raised("TypeError", "TypeError")
            ELSE IF both /\ order.val THEN ErrorStackGetItem("IO-META-NUM-MINMAX")
            ELSE IF condition.min # PyNone /\ ~lo.ok THEN lo
            ELSE IF condition.min # PyNone /\ FloatLT(meta_data, lo.val)
            THEN ErrorStackGetItem("IO-META-NUM-MIN")
            ELSE IF condition.max # PyNone /\ ~hi.ok THEN hi
            ELSE IF condition.max # PyNone /\ FloatGT(meta_data, hi.val)
            THEN ErrorStackGetItem("IO-META-NUM-MAX")
            ELSE Ok(meta_data)
    ELSE ErrorStackGetItem("IO-META-NUM-IRR")

\* _check: _min >= _max compares the two bounds as given; float(_min) and
\* float(_max) convert a bound when it is compared with the value.
NumberCheck(meta_data, condition) ==
    IF condition.t = "None" THEN Ok(meta_data)
    ELSE IF condition.t = "dict" THEN
        LET both == condition.min # PyNone /\ condition.max # PyNone
            order == PyGE(condition.min, condition.max)
            lo == PyFloatOf(condition.min)
            hi == PyFloatOf(condition.max)
        IN  IF both /\ ~order.ok THEN Raised("TypeError", "TypeError")
            ELSE IF both /\ order.val THEN ErrorStackGetItem("IO-META-NUM-MINMAX")
            ELSE IF condition.min # PyNone /\ ~lo.ok THEN lo
            ELSE IF condition.min # PyNone /\ FloatLT(meta_data, lo.val)
            THEN ErrorStackGetItem("IO-META-NUM-MIN")
            ELSE IF condition.max # PyNone /\ ~hi.ok THEN hi
            ELSE IF condition.max # PyNone /\ FloatGT(meta_data, hi.val)
            THEN ErrorStackGetItem("IO-META-NUM-MAX")
            ELSE Ok(meta_data)
    ELSE ErrorStackGetItem("IO-META-NUM-IRR")

(***************************************************************************)
(* [float(item) for item in data]: a list is walked element by element, a  *)
(* str character by character; nothing else can be iterated.               *)
(***************************************************************************)
IterItems(data) ==
    CASE data.t = "list" -> data.items
      [] data.t = "str" -> [i \in 1..Len(data.s) |-> PyStr(<<data.s[i]>>)]
      [] OTHER -> <<>>

\* A conversion that yields the items last to first.
NumberArrayFormatReversed(data) ==
    LET xs == IterItems(data)
    IN  IF data.t \notin {"list", "str"} THEN ErrorStackGetItem("IO-META-NUMARR")
        ELSE IF \E i \in 1..Len(xs) : ~PyFloatOf(xs[i]).ok THEN ErrorStackGetItem("IO-META-NUMARR")
        ELSE Ok(PyList([i \in 1..Len(xs) |-> PyFloatOf(xs[Len(xs) + 1 - i]).val]))

NumberArrayFormat(data) ==
    LET xs == IterItems(data)
    IN  IF data.t \notin {"list", "str"} THEN ErrorStackGetItem("IO-META-NUMARR")
        ELSE IF \E i \in 1..Len(xs) : ~PyFloatOf(xs[i]).ok THEN ErrorStackGetItem("IO-META-NUMARR")
        ELSE Ok(PyList([i \in 1..Len(xs) |-> PyFloatOf(xs[i]).val]))

NumberArrayCheckLax(meta_data, condition) ==
    IF condition.t = "None" \/ meta_data.items = <<>> THEN Ok(meta_data)
    ELSE ErrorStackGetItem("IO-META-NUMARR-IRR")

NumberArrayCheck(meta_data, condition) ==
    IF condition.t = "None" THEN Ok(meta_data)
    ELSE ErrorStackGetItem("IO-META-NUMARR-IRR")

StringFormat(data) == Ok(PyStrOf(data))

StringCheckPrefix(meta_data, condition) ==
    IF condition.t = "None" THEN Ok(meta_data)
    ELSE IF condition.t = "str" THEN
        IF ~re_match(condition.pat, meta_data.s)
        THEN ErrorStackGetItem("IO-META-STR-NM")
        ELSE Ok(meta_data)
    ELSE ErrorStackGetItem("IO-META-STR-IRR")

StringCheck(meta_data, condition) ==
    IF condition.t = "None" THEN Ok(meta_data)
    ELSE IF condition.t = "str" THEN
        IF ~re_fullmatch(condition.pat, meta_data.s)
        THEN ErrorStackGetItem("IO-META-STR-NM")
        ELSE Ok(meta_data)
    ELSE ErrorStackGetItem("IO-META-STR-IRR")

\* A constructor that looks at the shape of the condition before it formats the data.
IOMetaTypeModelInitConditionFirst(meta, data, condition) ==
    LET f == CASE meta = "number" -> NumberFormat(data)
               [] meta = "numarray" -> NumberArrayFormat(data)
               [] OTHER -> StringFormat(data)
    IN  IF meta = "numarray" /\ condition.t # "None" THEN ErrorStackGetItem("IO-META-NUMARR-IRR")
        ELSE IF meta = "number" /\ condition.t \notin {"None", "dict"}
        THEN ErrorStackGetItem("IO-META-NUM-IRR")
        ELSE IF ~f.ok THEN f
        ELSE CASE meta = "number" -> NumberCheck(f.val, condition)
               [] meta = "numarray" -> NumberArrayCheck(f.val, condition)
               [] OTHER -> StringCheck(f.val, condition)

\* IOMetaTypeModel.__init__: format, then check the formatted data.
IOMetaTypeModelInit(meta, data, condition) ==
    LET f == CASE meta = "number" -> NumberFormat(data)
               [] meta = "numarray" -> NumberArrayFormat(data)
               [] OTHER -> StringFormat(data)
    IN  IF ~f.ok THEN f
        ELSE CASE meta = "number" -> NumberCheck(f.val, condition)
               [] meta = "numarray" -> NumberArrayCheck(f.val, condition)
               [] OTHER -> StringCheck(f.val, condition)

(***************************************************************************)
(* iotypemodel/iotype_model.py: IOType                                     *)
(***************************************************************************)
accept_meta_types == {"string", "number", "numarray"}

IOType(meta, id, name, doc, condition, version) ==
    [meta |-> meta, id |-> id, name |-> name, doc |-> doc,
     condition |-> condition, version |-> version]

\* A call that validates as a string when the meta type is not a recognised one.
IOTypeCallFallback(iotype, data) ==
    IF iotype.meta \notin accept_meta_types
    THEN IOMetaTypeModelInit("string", data, iotype.condition)
    ELSE IOMetaTypeModelInit(iotype.meta, data, iotype.condition)

IOTypeCall(iotype, data) ==
    IF iotype.meta \notin accept_meta_types THEN Raised("KeyError", "KeyError")
    ELSE IOMetaTypeModelInit(iotype.meta, data, iotype.condition)

(***************************************************************************)
(* State.                                                                  *)
(***************************************************************************)
VARIABLES
    v_iotype,      \* validation: the IOType a value is validated under
    v_data,        \* validation: the raw value
    v_result,      \* validation: what IOType.__call__ returned or raised
    v_pc,          \* validation: "input" before the call, "done" after it, "again"
                   \* after the call on its own result
    v_lookup,      \* validation: outcome of the latest error_stack[errid]
    mode,          \* proxy: self._mode
    task_id,       \* proxy: self._task_id, 0 for None
    pc,            \* call: position of the running call, "idle" between calls
    kwargs,        \* call: the named arguments of the latest call
    params,        \* call: local params
    tid,           \* call: local task_id, 0 before submit returned
    response,      \* call: local response
    connected,     \* call: task_socket.connected
    polls,         \* call: non-terminal replies received by the call
    updates,       \* call: status texts passed to the progress reporter
    outcome,       \* how the latest call or cancel ended
    ops,           \* session: requests issued since the latest call began
    submitted,     \* session: parameter set of the latest submit
    next_task,     \* session: the id the server gives to the next task
    calls,         \* number of calls made so far
    iotypes,       \* registry: IOTypeStack.iotypes, io id -> IOType
    io_keys,       \* registry: the keys of iotypes in insertion order
    r_error,       \* registry: the error raised by the latest operation, "" for none
    r_json,        \* registry: the JSON document written by to_json
    loaded,        \* registry: iotypes of the registry loaded from r_json
    loaded_keys,   \* registry: its keys in insertion order
    r_pc,          \* registry: "build", then "exported" and "loaded", or "listed"
    r_input,       \* registry: the key and the record of the latest stack[io_id] = io_data
    r_listing,     \* registry: the latest get_records call and what it returned
    client_io_lib, \* client: EasyAccess._io_lib, io id -> IOType instance
    proxies,       \* client: the proxies constructed so far, in order
    fetch_log,     \* session: the ids asked of _get_io by the latest construction
    fetch_count,   \* session: how often each id was asked of _get_io
    next_obj,      \* identity of the next IOType instance created
    g_entry,       \* the value the client was last indexed by
    g_result,      \* what that indexing returned or raised
    g_requests     \* the entry metadata requests that indexing made

validate_vars == <<v_iotype, v_data, v_result, v_pc, v_lookup>>

call_vars == <<mode, task_id, pc, kwargs, params, tid, response, connected, polls,
               updates, outcome, ops, submitted, next_task, calls>>

registry_vars == <<iotypes, io_keys, r_error, r_json, loaded, loaded_keys, r_pc, r_input,
                   r_listing>>

vars == <<v_iotype, v_data, v_result, v_pc, v_lookup, mode, task_id, pc, kwargs, params, tid,
          response, connected, polls, updates, outcome, ops, submitted, next_task, calls,
          iotypes, io_keys, r_error, r_json, loaded, loaded_keys, r_pc, r_input, r_listing,
          client_io_lib, proxies, fetch_log, fetch_count, next_obj, g_entry, g_result,
          g_requests>>

cache_vars == <<client_io_lib, proxies, fetch_log, fetch_count, next_obj, g_entry, g_result,
                g_requests>>

(***************************************************************************)
(* Inputs of a validation.                                                 *)
(***************************************************************************)
Str12 == <<"1", "2">>
Str12a == <<"1", "2", "a">>
Str123 == <<"1", "2", "3">>
Stra12 == <<"a", "1", "2">>
StrNan == <<"n", "a", "n">>

RawInts == {PyInt(i) : i \in (0 - 1)..MaxNum} \cup {PyInt(50), PyInt(150)}

RawStrings == {PyStr(<<>>), PyStr(<<"a">>), PyStr(<<"2">>), PyStr(<<"-", "1">>), PyStr(Str12),
               PyStr(Str12a), PyStr(Str123), PyStr(Stra12), PyStr(StrNan)}

RawLists == {PyList(<<>>), PyList(<<PyInt(1)>>), PyList(<<PyStr(<<"a">>)>>),
             PyList(<<PyInt(2), PyStr(<<"1">>)>>), PyList(<<PyInt(1), PyNone>>),
             PyList(<<PyNaN, PyInt(0)>>)}

RawValues == {PyNone, PyFloat(2), PyNaN, PyInf, PyNegInf} \cup RawInts \cup RawStrings \cup RawLists

BoundValues == {PyNone, PyInt(100), PyStr(<<"a">>)} \cup {PyInt(i) : i \in (0 - 1)..MaxNum}

Patterns == {<<>>, <<Atom("digit", "plus")>>, <<Atom("a", "one")>>,
             <<Atom("digit", "one"), Atom("digit", "opt")>>,
             <<Atom("digit", "star"), Atom("a", "one")>>,
             <<Atom("any", "star"), Atom("2", "one")>>,
             <<Atom("digit", "plus"), Atom("any", "opt")>>}

Conditions == {CondNone, CondOther} \cup {CondDict(lo, hi) : lo, hi \in BoundValues}
                  \cup {CondStr(p) : p \in Patterns}

Metas == accept_meta_types \cup {"bool"}

\* Ids looked up in error_stack: the registered ones and some that are not.
ErrIds == DOMAIN error_stack \cup {"ERR-UNKNOWN", "IO-META-BOOL", "io-meta-num", ""}

NoLookup == [done |-> FALSE, errid |-> "", raised |-> Ok(PyNone), msg |-> ""]

InitValidate ==
    /\ v_iotype \in {IOType(m, "t", "t", "", c, "1") : m \in Metas, c \in Conditions}
    /\ v_data \in RawValues
    /\ v_result = Ok(PyNone)
    /\ v_pc = "input"
    /\ v_lookup = NoLookup

IdleValidate ==
    /\ v_iotype = IOType("string", "t", "t", "", CondNone, "1")
    /\ v_data = PyNone
    /\ v_result = Ok(PyNone)
    /\ v_pc = "idle"
    /\ v_lookup = NoLookup

\* IOType.__call__(data)
Validate ==
    /\ v_pc = "input"
    /\ v_result' = IOTypeCall(v_iotype, v_data)
    /\ v_pc' = "done"
    /\ UNCHANGED <<v_iotype, v_data, v_lookup>>
    /\ UNCHANGED <<call_vars, registry_vars, cache_vars>>

\* IOType.__call__(v) on the value v a validation under the same IOType returned.
Revalidate ==
    /\ v_pc = "done"
    /\ v_result.ok
    /\ v_data' = v_result.val
    /\ v_result' = IOTypeCall(v_iotype, v_result.val)
    /\ v_pc' = "again"
    /\ UNCHANGED <<v_iotype, v_lookup>>
    /\ UNCHANGED <<call_vars, registry_vars, cache_vars>>

\* error_stack[errid]
Lookup(errid) ==
    /\ v_lookup' = [done |-> TRUE, errid |-> errid, raised |-> ErrorStackGetItem(errid),
                    msg |-> ErrorStackMessage(errid)]
    /\ UNCHANGED <<v_iotype, v_data, v_result, v_pc>>
    /\ UNCHANGED <<call_vars, registry_vars, cache_vars>>

(***************************************************************************)
(* remote_algorithm.py: the proxy of the entry `add`, input a (number      *)
(* between 0 and 100, required) and input b (number, optional, default 1). *)
(***************************************************************************)
Parameter(io_type, default_value, optional) ==
    [iotype |-> io_type, default |-> default_value, optional |-> optional]

input_names == <<"a", "b">>

inputs ==
    [name \in {"a", "b"} |->
        IF name = "a"
        THEN Parameter(IOType("number", "percentage", "percentage", "",
                              CondDict(PyInt(0), PyInt(100)), "1"), PyNone, FALSE)
        ELSE Parameter(IOType("number", "number", "number", "", CondNone, "1"), PyInt(1), TRUE)]

NoArgs == [name \in {} |-> PyNone]

\* The named arguments a caller passes: a and b declared, z not declared.
ArgValues(name) ==
    CASE name = "a" -> {PyInt(5), PyInt(150), PyStr(<<"a">>)}
      [] name = "b" -> {PyInt(2)}
      [] OTHER -> {PyInt(0)}

KwargsSets == {f \in UNION {[names -> {PyInt(5), PyInt(150), PyStr(<<"a">>), PyInt(2), PyInt(0)}] :
                                names \in SUBSET {"a", "b", "z"}} :
                   \A name \in DOMAIN f : f[name] \in ArgValues(name)}

BuiltOk(p) == [ok |-> TRUE, params |-> p, err |-> "", kind |-> ""]

BuildRaised(errid, errkind) == [ok |-> FALSE, params |-> NoArgs, err |-> errid, kind |-> errkind]

Extend(p, name, value) ==
    [n \in DOMAIN p \cup {name} |-> IF n = name THEN value ELSE p[n]]

\* _build_params: the loop over self.inputs, from the i-th input on.
RECURSIVE BuildFromRaw(_, _, _, _)
BuildFromRaw(params_, names, ins, kw) ==
    IF names = <<>> THEN BuiltOk(params_)
    ELSE LET arg_name == Head(names)
             arg_regular == ins[arg_name]
         IN  IF arg_name \notin DOMAIN kw
             THEN IF arg_regular.optional
                  THEN BuildFromRaw(Extend(params_, arg_name, arg_regular.default),
                                    Tail(names), ins, kw)
                  ELSE BuildRaised(arg_name, "RuntimeError")
             ELSE BuildFromRaw(Extend(params_, arg_name, kw[arg_name]), Tail(names), ins, kw)

RECURSIVE BuildFromLenient(_, _, _, _)
BuildFromLenient(params_, names, ins, kw) ==
    IF names = <<>> THEN BuiltOk(params_)
    ELSE LET arg_name == Head(names)
             arg_regular == ins[arg_name]
         IN  IF arg_name \notin DOMAIN kw
             THEN BuildFromLenient(Extend(params_, arg_name, arg_regular.default),
                                   Tail(names), ins, kw)
             ELSE LET r == IOTypeCall(arg_regular.iotype, kw[arg_name])
                  IN  IF r.ok
                      THEN BuildFromLenient(Extend(params_, arg_name, r.val), Tail(names), ins, kw)
                      ELSE BuildRaised(r.err, r.kind)

RECURSIVE BuildFrom(_, _, _, _)
BuildFrom(params_, names, ins, kw) ==
    IF names = <<>> THEN BuiltOk(params_)
    ELSE LET arg_name == Head(names)
             arg_regular == ins[arg_name]
         IN  IF arg_name \notin DOMAIN kw
             THEN IF arg_regular.optional
                  THEN BuildFrom(Extend(params_, arg_name, arg_regular.default),
                                 Tail(names), ins, kw)
                  ELSE BuildRaised(arg_name, "RuntimeError")
             ELSE LET r == IOTypeCall(arg_regular.iotype, kw[arg_name])
                  IN  IF r.ok
                      THEN BuildFrom(Extend(params_, arg_name, r.val), Tail(names), ins, kw)
                      ELSE BuildRaised(r.err, r.kind)

BuildParamsRaw(kw) == BuildFromRaw(NoArgs, input_names, inputs, kw)

BuildParamsLenient(kw) == BuildFromLenient(NoArgs, input_names, inputs, kw)

\* A parameter set that also carries the named arguments that are not declared.
BuildParamsPassThrough(kw) ==
    LET built == BuildFrom(NoArgs, input_names, inputs, kw)
    IN  IF built.ok
        THEN BuiltOk([name \in DOMAIN built.params \cup DOMAIN kw |->
                         IF name \in DOMAIN built.params THEN built.params[name]
                         ELSE kw[name]])
        ELSE built

BuildParams(kw) == BuildFrom(NoArgs, input_names, inputs, kw)

\* A mode compared as it is spelled.
LowerNot(m) == m

\* self._mode.lower()
Lower(m) ==
    CASE m = "HTTP" -> "http"
      [] m = "WebSocket" -> "websocket"
      [] OTHER -> m

Modes == {"http", "HTTP", "https", "socket", "WebSocket", "ftp"}

Polling == Lower(mode) \in {"http", "https"}

Streaming == Lower(mode) \in {"socket", "websocket"}

\* Replies of the session to a status request or a stream query.
NoResponse == [has_success |-> FALSE, success |-> FALSE, status |-> "", output |-> ""]
Queued == [has_success |-> FALSE, success |-> FALSE, status |-> "queued", output |-> ""]
Running == [has_success |-> FALSE, success |-> FALSE, status |-> "running", output |-> ""]
Succeeded == [has_success |-> TRUE, success |-> TRUE, status |-> "", output |-> "result"]
Failed == [has_success |-> TRUE, success |-> FALSE, status |-> "", output |-> "task error"]

Replies == {Queued, Running, Succeeded, Failed}

Op(name, task) == [op |-> name, task |-> task]

NoOutcome == [kind |-> "none", detail |-> ""]
Outcome(kind, detail) == [kind |-> kind, detail |-> detail]

InitCall ==
    /\ mode \in Modes
    /\ task_id = 0
    /\ pc = "idle"
    /\ kwargs = NoArgs
    /\ params = NoArgs
    /\ tid = 0
    /\ response = NoResponse
    /\ connected = FALSE
    /\ polls = 0
    /\ updates = <<>>
    /\ outcome = NoOutcome
    /\ ops = <<>>
    /\ submitted = NoArgs
    /\ next_task = 1
    /\ calls = 0

IdleCall ==
    /\ mode = "http"
    /\ task_id = 0
    /\ pc = "off"
    /\ kwargs = NoArgs
    /\ params = NoArgs
    /\ tid = 0
    /\ response = NoResponse
    /\ connected = FALSE
    /\ polls = 0
    /\ updates = <<>>
    /\ outcome = NoOutcome
    /\ ops = <<>>
    /\ submitted = NoArgs
    /\ next_task = 1
    /\ calls = 0

\* The locals of run_http / run_websocket are gone when the call returns or raises.
DropLocals ==
    /\ params' = NoArgs
    /\ tid' = 0
    /\ response' = NoResponse
    /\ connected' = FALSE
    /\ polls' = 0
    /\ updates' = <<>>

\* __call__ with an unsupported mode: ValueError.
CallUnsupported(kw) ==
    /\ pc = "idle"
    /\ calls < MaxCalls
    /\ ~Polling /\ ~Streaming
    /\ calls' = calls + 1
    /\ kwargs' = kw
    /\ ops' = <<>>
    /\ outcome' = Outcome("mode_error", mode)
    /\ UNCHANGED <<mode, task_id, pc, params, tid, response, connected, polls, updates,
                   submitted, next_task>>
    /\ UNCHANGED <<validate_vars, registry_vars, cache_vars>>

\* __call__ -> run_http / run_websocket up to the try block: _build_params.
Call(kw) ==
    /\ pc = "idle"
    /\ calls < MaxCalls
    /\ Polling \/ Streaming
    /\ calls' = calls + 1
    /\ kwargs' = kw
    /\ ops' = <<>>
    /\ LET built == BuildParams(kw)
       IN  IF built.ok
           THEN /\ params' = built.params
                /\ pc' = "submit"
                /\ outcome' = NoOutcome
           ELSE /\ params' = NoArgs
                /\ pc' = "idle"
                /\ outcome' = Outcome(IF built.kind = "RuntimeError" THEN "missing_argument"
                                      ELSE "invalid_argument", built.err)
    /\ UNCHANGED <<mode, task_id, tid, response, connected, polls, updates, submitted, next_task>>
    /\ UNCHANGED <<validate_vars, registry_vars, cache_vars>>

\* task_id = self._client._submit_task(entry_name, params)
Submit ==
    /\ pc = "submit"
    /\ ops' = Append(ops, Op("submit", next_task))
    /\ submitted' = params
    /\ tid' = next_task
    /\ next_task' = next_task + 1
    /\ pc' = "record"
    /\ UNCHANGED <<mode, task_id, kwargs, params, response, connected, polls, updates,
                   outcome, calls>>
    /\ UNCHANGED <<validate_vars, registry_vars, cache_vars>>

\* A call that keeps the task id of submit in its local only.
RecordSkipped ==
    /\ pc = "record"
    /\ pc' = IF Polling THEN "query" ELSE "open"
    /\ UNCHANGED <<mode, task_id, kwargs, params, tid, response, connected, polls, updates,
                   outcome, ops, submitted, next_task, calls>>
    /\ UNCHANGED <<validate_vars, registry_vars, cache_vars>>

\* self._task_id = task_id
Record ==
    /\ pc = "record"
    /\ task_id' = tid
    /\ pc' = IF Polling THEN "query" ELSE "open"
    /\ UNCHANGED <<mode, kwargs, params, tid, response, connected, polls, updates, outcome,
                   ops, submitted, next_task, calls>>
    /\ UNCHANGED <<validate_vars, registry_vars, cache_vars>>

\* task_socket = self._client._get_task_in_websocket(task_id)
OpenStream ==
    /\ pc = "open"
    /\ ops' = Append(ops, Op("open", tid))
    /\ connected' = TRUE
    /\ pc' = "query"
    /\ UNCHANGED <<mode, task_id, kwargs, params, tid, response, polls, updates, outcome,
                   submitted, next_task, calls>>
    /\ UNCHANGED <<validate_vars, registry_vars, cache_vars>>

\* A loop whose body leaves the progress reporter alone.
PollNoUpdate(reply) ==
    /\ pc = "query"
    /\ Polling
    /\ reply.has_success \/ polls < MaxPolls
    /\ ops' = Append(ops, Op("status", tid))
    /\ response' = reply
    /\ IF reply.has_success
       THEN /\ pc' = "finish"
            /\ UNCHANGED <<polls, updates>>
       ELSE /\ pc' = "query"
            /\ polls' = polls + 1
            /\ UNCHANGED updates
    /\ UNCHANGED <<mode, task_id, kwargs, params, tid, connected, outcome, submitted,
                   next_task, calls>>
    /\ UNCHANGED <<validate_vars, registry_vars, cache_vars>>

\* run_http: response = self._client._get_task_return(task_id) and the loop test
\* 'success' not in response; the body of the loop updates the progress reporter.
Poll(reply) ==
    /\ pc = "query"
    /\ Polling
    /\ reply.has_success \/ polls < MaxPolls
    /\ ops' = Append(ops, Op("status", tid))
    /\ response' = reply
    /\ IF reply.has_success
       THEN /\ pc' = "finish"
            /\ UNCHANGED <<polls, updates>>
       ELSE /\ pc' = "query"
            /\ polls' = polls + 1
            /\ updates' = Append(updates, reply.status)
    /\ UNCHANGED <<mode, task_id, kwargs, params, tid, connected, outcome, submitted,
                   next_task, calls>>
    /\ UNCHANGED <<validate_vars, registry_vars, cache_vars>>

\* A query that leaves closing the connection to the remote side.
QueryKeepOpen(reply, remote_open) ==
    /\ pc = "query"
    /\ Streaming
    /\ reply.has_success \/ polls < MaxPolls
    /\ ops' = Append(ops, Op("get", tid))
    /\ response' = reply
    /\ connected' = remote_open
    /\ IF connected'
       THEN /\ pc' = "query"
            /\ polls' = IF polls < MaxPolls THEN polls + 1 ELSE polls
            /\ updates' = updates
       ELSE /\ pc' = "finish"
            /\ UNCHANGED <<polls, updates>>
    /\ UNCHANGED <<mode, task_id, kwargs, params, tid, outcome, submitted, next_task, calls>>
    /\ UNCHANGED <<validate_vars, registry_vars, cache_vars>>

\* A wait loop that tests the reply for a success key instead of the connection.
QueryUntilSuccess(reply, remote_open) ==
    /\ pc = "query"
    /\ Streaming
    /\ reply.has_success \/ polls < MaxPolls
    /\ ops' = Append(ops, Op("get", tid))
    /\ response' = reply
    /\ connected' = (~reply.has_success /\ remote_open)
    /\ IF ~reply.has_success
       THEN /\ pc' = "query"
            /\ polls' = polls + 1
            /\ updates' = Append(updates, reply.status)
       ELSE /\ pc' = "finish"
            /\ UNCHANGED <<polls, updates>>
    /\ UNCHANGED <<mode, task_id, kwargs, params, tid, outcome, submitted, next_task, calls>>
    /\ UNCHANGED <<validate_vars, registry_vars, cache_vars>>

\* run_websocket: response = task_socket.query('get') and the loop test
\* task_socket.connected.  EasyAccessWebSocket.query closes the connection when the
\* reply has a success key; the remote side may close it after any other reply.
Query(reply, remote_open) ==
    /\ pc = "query"
    /\ Streaming
    /\ reply.has_success \/ polls < MaxPolls
    /\ ops' = Append(ops, Op("get", tid))
    /\ response' = reply
    /\ connected' = (~reply.has_success /\ remote_open)
    /\ IF connected'
       THEN /\ pc' = "query"
            /\ polls' = polls + 1
            /\ updates' = Append(updates, reply.status)
       ELSE /\ pc' = "finish"
            /\ UNCHANGED <<polls, updates>>
    /\ UNCHANGED <<mode, task_id, kwargs, params, tid, outcome, submitted, next_task, calls>>
    /\ UNCHANGED <<validate_vars, registry_vars, cache_vars>>

\* After the try block: response['success'] decides between return and raise.
Finish ==
    /\ pc = "finish"
    /\ outcome' = IF ~response.has_success THEN Outcome("key_error", "success")
                  ELSE IF ~response.success THEN Outcome("failed", response.output)
                  ELSE Outcome("returned", response.output)
    /\ pc' = "idle"
    /\ DropLocals
    /\ UNCHANGED <<mode, task_id, kwargs, ops, submitted, next_task, calls>>
    /\ UNCHANGED <<validate_vars, registry_vars, cache_vars>>

\* _cancel: nothing without a task id, else one cancel request, whose result only
\* selects the text shown by the progress reporter, then the id is cleared.
CancelOps == IF task_id = 0 THEN ops ELSE Append(ops, Op("cancel", task_id))

CancelReport(cancel_ok) ==
    IF task_id = 0 THEN "no task"
    ELSE IF cancel_ok THEN "cancelled" ELSE "failed to be cancelled"

\* An interrupt handler that re-raises without cancelling.
InterruptQuiet(cancel_ok) ==
    /\ pc \in {"submit", "record", "open", "query"}
    /\ outcome' = Outcome("interrupted", CancelReport(cancel_ok))
    /\ pc' = "idle"
    /\ DropLocals
    /\ UNCHANGED <<mode, task_id, kwargs, ops, submitted, next_task, calls>>
    /\ UNCHANGED <<validate_vars, registry_vars, cache_vars>>

\* except KeyboardInterrupt: self._cancel(task_progress_bar); raise
Interrupt(cancel_ok) ==
    /\ pc \in {"submit", "record", "open", "query"}
    /\ ops' = CancelOps
    /\ task_id' = 0
    /\ outcome' = Outcome("interrupted", CancelReport(cancel_ok))
    /\ pc' = "idle"
    /\ DropLocals
    /\ UNCHANGED <<mode, kwargs, submitted, next_task, calls>>
    /\ UNCHANGED <<validate_vars, registry_vars, cache_vars>>

\* A cancel that sends its request without testing for a tracked task.
CancelUnguarded(cancel_ok) ==
    /\ pc = "idle"
    /\ ops' = Append(ops, Op("cancel", task_id))
    /\ task_id' = 0
    /\ outcome' = Outcome("cancel", CancelReport(cancel_ok))
    /\ UNCHANGED <<mode, pc, kwargs, params, tid, response, connected, polls, updates,
                   submitted, next_task, calls>>
    /\ UNCHANGED <<validate_vars, registry_vars, cache_vars>>

\* A cancel that forgets the task only when the session reports success.
CancelKeepsOnFailure(cancel_ok) ==
    /\ pc = "idle"
    /\ ops' = CancelOps
    /\ task_id' = IF cancel_ok THEN 0 ELSE task_id
    /\ outcome' = Outcome("cancel", CancelReport(cancel_ok))
    /\ UNCHANGED <<mode, pc, kwargs, params, tid, response, connected, polls, updates,
                   submitted, next_task, calls>>
    /\ UNCHANGED <<validate_vars, registry_vars, cache_vars>>

\* cancel()
Cancel(cancel_ok) ==
    /\ pc = "idle"
    /\ ops' = CancelOps
    /\ task_id' = 0
    /\ outcome' = Outcome("cancel", CancelReport(cancel_ok))
    /\ UNCHANGED <<mode, pc, kwargs, params, tid, response, connected, polls, updates,
                   submitted, next_task, calls>>
    /\ UNCHANGED <<validate_vars, registry_vars, cache_vars>>

(***************************************************************************)
(* iotypemodel/iotype_model.py: IOTypeStack                                *)
(***************************************************************************)
required_properties == <<"id", "meta", "name", "doc", "version", "condition">>

RequiredSet == {required_properties[i] : i \in 1..Len(required_properties)}

\* IOType.to_dict / IOType.schema
IOTypeToDictNoCondition(io) ==
    [key \in {"meta", "id", "name", "doc", "condition", "version"} |->
        CASE key = "meta" -> io.meta
          [] key = "id" -> io.id
          [] key = "name" -> io.name
          [] key = "doc" -> io.doc
          [] key = "condition" -> CondNone
          [] OTHER -> io.version]

IOTypeToDict(io) ==
    [key \in {"meta", "id", "name", "doc", "condition", "version"} |->
        CASE key = "meta" -> io.meta
          [] key = "id" -> io.id
          [] key = "name" -> io.name
          [] key = "doc" -> io.doc
          [] key = "condition" -> io.condition
          [] OTHER -> io.version]

\* IOTypeStack.__setitem__ on the pair (iotypes, keys): the record is filtered to
\* the required properties; with one of them missing SyntaxError is raised and
\* nothing is stored.
FilteredData(io_data) == [key \in DOMAIN io_data \cap RequiredSet |-> io_data[key]]

\* A test that takes a record only when its fields are the required ones and no other.
RegularExact(io_data) == DOMAIN io_data = RequiredSet

Regular(io_data) == Cardinality(DOMAIN FilteredData(io_data)) = Len(required_properties)

StackSetItem(stack, io_id, io_data) ==
    IF ~Regular(io_data)
    THEN [stack EXCEPT !.error = io_id]
    ELSE LET f == FilteredData(io_data)
         IN  [map |-> Extend(stack.map, io_id,
                             IOType(f["meta"], f["id"], f["name"], f["doc"], f["condition"],
                                    f["version"])),
              keys |-> IF io_id \in DOMAIN stack.map THEN stack.keys
                       ELSE Append(stack.keys, io_id),
              error |-> ""]

\* keys[start:stop]: a negative index counts from the end, and both indices are
\* clamped to the length of the list.
SliceIndex(i, n) ==
    IF i < 0 THEN (IF n + i < 0 THEN 0 ELSE n + i)
    ELSE IF i > n THEN n ELSE i

PySlice(seq, start, stop) ==
    LET lo == SliceIndex(start, Len(seq))
        hi == SliceIndex(stop, Len(seq))
    IN  IF lo >= hi THEN <<>> ELSE SubSeq(seq, lo + 1, hi)

\* get_records with limit < 0 in place of limit <= 0.
get_records_negative(keys, skip, limit) ==
    IF limit < 0 THEN PySlice(keys, skip, Len(keys)) ELSE PySlice(keys, skip, skip + limit)

\* IOTypeStack.get_records(skip, limit)
get_records(keys, skip, limit) ==
    IF limit <= 0 THEN PySlice(keys, skip, Len(keys)) ELSE PySlice(keys, skip, skip + limit)

EmptyStack == [map |-> [io_id \in {} |-> 0], keys |-> <<>>, error |-> ""]

\* IOTypeStack.to_dict (keys=None): an ordered mapping io id -> schema.
StackToDict(map, keys) == [keys |-> keys, map |-> [io_id \in DOMAIN map |-> IOTypeToDict(map[io_id])]]

(***************************************************************************)
(* json.dumps and json.loads on the values a schema holds: None <-> null,  *)
(* str <-> string, int and float <-> number, dict <-> object.              *)
(***************************************************************************)
JsonOfValue(v) ==
    [v EXCEPT !.t = CASE v.t = "None" -> "null"
                      [] v.t = "int" -> "number-int"
                      [] v.t = "float" -> "number-real"
                      [] v.t = "str" -> "string"
                      [] OTHER -> "array"]

ValueOfJson(j) ==
    [j EXCEPT !.t = CASE j.t = "null" -> "None"
                      [] j.t = "number-int" -> "int"
                      [] j.t = "number-real" -> "float"
                      [] j.t = "string" -> "str"
                      [] OTHER -> "list"]

JsonOfCondition(c) ==
    [t |-> CASE c.t = "None" -> "null"
             [] c.t = "dict" -> "object"
             [] c.t = "str" -> "string"
             [] OTHER -> "number-int",
     min |-> JsonOfValue(c.min), max |-> JsonOfValue(c.max), pat |-> c.pat]

ConditionOfJson(j) ==
    [t |-> CASE j.t = "null" -> "None"
             [] j.t = "object" -> "dict"
             [] j.t = "string" -> "str"
             [] OTHER -> "int",
     min |-> ValueOfJson(j.min), max |-> ValueOfJson(j.max), pat |-> j.pat]

JsonOfSchema(schema) ==
    [key \in DOMAIN schema |->
        IF key = "condition" THEN JsonOfCondition(schema[key]) ELSE <<"string", schema[key]>>]

SchemaOfJson(obj) ==
    [key \in DOMAIN obj |->
        IF key = "condition" THEN ConditionOfJson(obj[key]) ELSE obj[key][2]]

json_dumps(d) == [keys |-> d.keys, map |-> [io_id \in DOMAIN d.map |-> JsonOfSchema(d.map[io_id])]]

json_loads(doc) == [keys |-> doc.keys, map |-> [io_id \in DOMAIN doc.map |-> SchemaOfJson(doc.map[io_id])]]

\* IOTypeStack._load_dict: self[io_id] = io_data for the items in order; the
\* first irregular record raises and ends the load.
RECURSIVE LoadDict(_, _, _)
LoadDict(stack, keys, map) ==
    IF keys = <<>> \/ stack.error # "" THEN stack
    ELSE LoadDict(StackSetItem(stack, Head(keys), map[Head(keys)]), Tail(keys), map)

\* Records a caller may add to a registry.
IoIds == {"number", "percentage"}

IoRecord(id, meta, condition) ==
    [key \in RequiredSet |->
        CASE key = "id" -> id
          [] key = "meta" -> meta
          [] key = "name" -> "n-" \o id
          [] key = "doc" -> "about " \o id
          [] key = "version" -> "1.0"
          [] OTHER -> condition]

Without(rec, key) == [k \in DOMAIN rec \ {key} |-> rec[k]]

RegularRecords ==
    {IoRecord(id, meta, c) : id \in IoIds, meta \in {"number", "string"},
                           c \in {CondNone, CondDict(PyInt(0), PyInt(100)), CondDict(PyNone, PyInt(1)),
                                  CondStr(<<Atom("digit", "plus")>>)}}

IrregularRecords ==
    {Without(IoRecord("number", "number", CondNone), key) : key \in {"condition", "version"}}

ExtraRecords ==
    {[key \in RequiredSet \cup {"extra"} |->
         IF key = "extra" THEN "x" ELSE IoRecord("number", "number", CondNone)[key]]}

Records == RegularRecords \cup IrregularRecords \cup ExtraRecords

NoInput == [io_id |-> "", io_data |-> [key \in {} |-> ""]]

NoListing == [done |-> FALSE, skip |-> 0, limit |-> 0, ids |-> <<>>]

InitRegistry ==
    /\ iotypes = EmptyStack.map
    /\ io_keys = <<>>
    /\ r_error = ""
    /\ r_json = json_dumps(StackToDict(EmptyStack.map, <<>>))
    /\ loaded = EmptyStack.map
    /\ loaded_keys = <<>>
    /\ r_pc = "build"
    /\ r_input = NoInput
    /\ r_listing = NoListing

IdleRegistry ==
    /\ iotypes = EmptyStack.map
    /\ io_keys = <<>>
    /\ r_error = ""
    /\ r_json = json_dumps(StackToDict(EmptyStack.map, <<>>))
    /\ loaded = EmptyStack.map
    /\ loaded_keys = <<>>
    /\ r_pc = "off"
    /\ r_input = NoInput
    /\ r_listing = NoListing

\* stack[io_id] = io_data
SetItem(io_id, io_data) ==
    /\ r_pc = "build"
    /\ Len(io_keys) < MaxRecords
    /\ LET st == StackSetItem([map |-> iotypes, keys |-> io_keys, error |-> ""], io_id, io_data)
       IN  /\ iotypes' = st.map
           /\ io_keys' = st.keys
           /\ r_error' = st.error
    /\ r_input' = [io_id |-> io_id, io_data |-> io_data]
    /\ UNCHANGED <<r_json, loaded, loaded_keys, r_pc, r_listing>>
    /\ UNCHANGED <<validate_vars, call_vars, cache_vars>>

\* stack.get_records(skip, limit)
GetRecords(skip, limit) ==
    /\ r_pc = "build"
    /\ r_listing' = [done |-> TRUE, skip |-> skip, limit |-> limit,
                     ids |-> get_records(io_keys, skip, limit)]
    /\ r_pc' = "listed"
    /\ UNCHANGED <<iotypes, io_keys, r_error, r_json, loaded, loaded_keys, r_input>>
    /\ UNCHANGED <<validate_vars, call_vars, cache_vars>>

\* to_json(path)
ToJson ==
    /\ r_pc = "build"
    /\ r_json' = json_dumps(StackToDict(iotypes, io_keys))
    /\ r_pc' = "exported"
    /\ r_error' = ""
    /\ UNCHANGED <<iotypes, io_keys, loaded, loaded_keys, r_input, r_listing>>
    /\ UNCHANGED <<validate_vars, call_vars, cache_vars>>

\* IOTypeStack(path): _load_file -> _load_json -> _load_dict(json.load(file))
LoadJson ==
    /\ r_pc = "exported"
    /\ LET d == json_loads(r_json)
           st == LoadDict(EmptyStack, d.keys, d.map)
       IN  /\ loaded' = st.map
           /\ loaded_keys' = st.keys
           /\ r_error' = st.error
    /\ r_pc' = "loaded"
    /\ UNCHANGED <<iotypes, io_keys, r_json, r_input, r_listing>>
    /\ UNCHANGED <<validate_vars, call_vars, cache_vars>>

(***************************************************************************)
(* client.py and remote_algorithm.py: construction of proxies over the     *)
(* client's IOType cache.  The server knows three IOTypes and three        *)
(* entries; an entry names the IOType of each input and output.            *)
(***************************************************************************)
ServerIoIds == {"number", "percentage", "text"}

\* _get_io(io_name): the record of the IOType on the server.
GetIo(io_name) ==
    CASE io_name = "number" -> IOType("number", "number", "number", "", CondNone, "1")
      [] io_name = "percentage" ->
             IOType("number", "percentage", "percentage", "", CondDict(PyInt(0), PyInt(100)), "1")
      [] OTHER -> IOType("string", "text", "text", "", CondStr(<<Atom("digit", "plus")>>), "1")

Slot(param, io_name) == [param |-> param, io |-> io_name]

\* _get_entry(entry_name, io=True): raw_inputs and raw_outputs in server order.
GetEntry(entry_name) ==
    CASE entry_name = "add" ->
             [inputs |-> <<Slot("a", "percentage"), Slot("b", "number")>>,
              outputs |-> <<Slot("sum", "number")>>]
      [] entry_name = "echo" ->
             [inputs |-> <<Slot("s", "text")>>, outputs |-> <<Slot("s", "text")>>]
      [] OTHER ->
             [inputs |-> <<Slot("x", "number")>>, outputs |-> <<Slot("y", "percentage")>>]

Entries == {"add", "echo", "scale"}

\* The values that index the client: a name, a list or a tuple of names (not empty,
\* at most MaxBatch long), or a value of another type.  "ghost" is no entry.
Names == Entries \cup {"ghost"}

\* An index of type t; names holds the name (str) or the names (list, tuple).
SeqIndex(t, names) == [t |-> t, names |-> names]

Indexes ==
    {SeqIndex("str", <<name>>) : name \in Names}
    \cup {SeqIndex(t, names) : t \in {"list", "tuple"},
                               names \in UNION {[1..n -> Names] : n \in 1..MaxBatch}}
    \cup {SeqIndex("int", <<>>)}

\* No indexing was made yet.
NoItem == [kind |-> "none", name |-> ""]

Instance(obj, io) == [obj |-> obj, io |-> io]

EmptyLib == [io_name \in {} |-> 0]

\* _load_io_info on the resolution state (the proxy's _io_lib, the ids fetched so
\* far, the next instance identity); last is the instance returned.
LoadIoInfoAlways(st, io_name) ==
    LET inst == Instance(st.nobj, GetIo(io_name))
    IN  [lib |-> Extend(st.lib, io_name, inst), log |-> Append(st.log, io_name),
         nobj |-> st.nobj + 1, last |-> inst]

LoadIoInfo(st, io_name) ==
    IF io_name \notin DOMAIN st.lib
    THEN LET inst == Instance(st.nobj, GetIo(io_name))
         IN  [lib |-> Extend(st.lib, io_name, inst), log |-> Append(st.log, io_name),
              nobj |-> st.nobj + 1, last |-> inst]
    ELSE [st EXCEPT !.last = st.lib[io_name]]

\* One comprehension of _load_in_out_params: the slots resolved in order; res maps
\* each parameter name to the instance its Parameter holds.
RECURSIVE LoadSlots(_, _, _)
LoadSlots(st, res, slots) ==
    IF slots = <<>> THEN [st |-> st, res |-> res]
    ELSE LET st2 == LoadIoInfo(st, Head(slots).io)
         IN  LoadSlots(st2, Extend(res, Head(slots).param, st2.last), Tail(slots))

\* RemoteAlgorithm.__init__(client, entry_name, io_lib): self._io_lib = io_lib or {},
\* then _load_in_out_params.  shared tells whether self._io_lib is the dict passed.
Construct(entry_name, io_lib, nobj) ==
    LET shared == io_lib # EmptyLib
        st0 == [lib |-> IF shared THEN io_lib ELSE EmptyLib, log |-> <<>>, nobj |-> nobj,
                last |-> Instance(0, GetIo("number"))]
        ins == LoadSlots(st0, EmptyLib, GetEntry(entry_name).inputs)
        outs == LoadSlots(ins.st, EmptyLib, GetEntry(entry_name).outputs)
    IN  [proxy |-> [entry |-> entry_name, shared |-> shared, io_lib |-> outs.st.lib,
                    inputs |-> ins.res, outputs |-> outs.res],
         log |-> outs.st.log, nobj |-> outs.st.nobj]

PreloadObj(io_name) ==
    CASE io_name = "number" -> 1
      [] io_name = "percentage" -> 2
      [] OTHER -> 3

\* EasyAccess.__init__: _io_lib holds the IOTypes the server listed at that time.
InitCache ==
    /\ \E known \in SUBSET ServerIoIds :
           client_io_lib = [io_name \in known |-> Instance(PreloadObj(io_name), GetIo(io_name))]
    /\ proxies = <<>>
    /\ fetch_log = <<>>
    /\ fetch_count = [io_name \in ServerIoIds |-> 0]
    /\ next_obj = 4
    /\ g_entry = SeqIndex("int", <<>>)
    /\ g_result = NoItem
    /\ g_requests = <<>>

IdleCache ==
    /\ client_io_lib = EmptyLib
    /\ proxies = <<>>
    /\ fetch_log = <<>>
    /\ fetch_count = [io_name \in ServerIoIds |-> 0]
    /\ next_obj = 4
    /\ g_entry = SeqIndex("int", <<>>)
    /\ g_result = NoItem
    /\ g_requests = <<>>

Occurrences(log, io_name) == Cardinality({i \in 1..Len(log) : log[i] = io_name})

\* The proxies of one __getitem__ constructed in order over the client's _io_lib;
\* log is the fetch log of the last construction, fetched the ids fetched by all.
RECURSIVE ConstructEach(_, _, _, _, _, _)
ConstructEach(names, io_lib, nobj, built, log, fetched) ==
    LET After(c) ==
            ConstructEach(Tail(names), IF c.proxy.shared THEN c.proxy.io_lib ELSE io_lib,
                          c.nobj, Append(built, c.proxy), c.log, fetched \o c.log)
    IN  IF names = <<>>
        THEN [built |-> built, lib |-> io_lib, log |-> log, fetched |-> fetched, nobj |-> nobj]
        ELSE After(Construct(Head(names), io_lib, nobj))

\* The names of a list that are not in self._entries, by position.
UnknownNames(names) == {i \in 1..Len(names) : names[i] \notin Entries}

FirstMissing(names) ==
    names[CHOOSE i \in UnknownNames(names) : \A j \in UnknownNames(names) : i <= j]

\* The keys of the batch metadata: the names asked for, each once, in order.
Distinct(names) ==
    LET keep[i \in 0..Len(names)] ==
            IF i = 0 THEN <<>>
            ELSE IF \E j \in 1..(i - 1) : names[j] = names[i] THEN keep[i - 1]
                 ELSE Append(keep[i - 1], names[i])
    IN  keep[Len(names)]

\* A request for entry metadata: _get_entry (one) or _get_entry_inbatch (batch).
Req(op, names) == [op |-> op, names |-> names]

NotFound(name) == [kind |-> "ModuleNotFoundError", name |-> name]

\* An indexing that tests the names of a list one by one while it builds.
getitem_lazy(entry, io_lib, nobj) ==
    LET result ==
            CASE entry.t = "str" ->
                     IF entry.names[1] \notin Entries THEN NotFound(entry.names[1])
                     ELSE [kind |-> "proxy", name |-> entry.names[1]]
              [] entry.t \in {"list", "tuple"} ->
                     IF UnknownNames(entry.names) # {} THEN NotFound(FirstMissing(entry.names))
                     ELSE [kind |-> "dict", name |-> ""]
              [] OTHER -> [kind |-> "IndexError", name |-> ""]
        known == SelectSeq(entry.names,
                           LAMBDA name : /\ name \in Entries
                                         /\ \/ UnknownNames(entry.names) = {}
                                            \/ \E k \in 1..Len(entry.names) :
                                                   /\ entry.names[k] = name
                                                   /\ \A u \in UnknownNames(entry.names) : k < u)
    IN  [result |-> result,
         requests |-> CASE entry.t = "str" /\ result.kind = "proxy" -> <<Req("entry", entry.names)>>
                        [] entry.t \in {"list", "tuple"} -> <<Req("batch", entry.names)>>
                        [] OTHER -> <<>>,
         made |-> ConstructEach(Distinct(known), io_lib, nobj, <<>>, <<>>, <<>>)]

\* EasyAccess.__getitem__(entry): the outcome, the metadata requests and the proxies
\* constructed.
getitem(entry, io_lib, nobj) ==
    LET result ==
            CASE entry.t = "str" ->
                     IF entry.names[1] \notin Entries THEN NotFound(entry.names[1])
                     ELSE [kind |-> "proxy", name |-> entry.names[1]]
              [] entry.t \in {"list", "tuple"} ->
                     IF UnknownNames(entry.names) # {} THEN NotFound(FirstMissing(entry.names))
                     ELSE [kind |-> "dict", name |-> ""]
              [] OTHER -> [kind |-> "IndexError", name |-> ""]
    IN  [result |-> result,
         requests |-> CASE result.kind = "proxy" -> <<Req("entry", entry.names)>>
                        [] result.kind = "dict" -> <<Req("batch", entry.names)>>
                        [] OTHER -> <<>>,
         made |-> ConstructEach(IF result.kind \in {"proxy", "dict"}
                                THEN Distinct(entry.names) ELSE <<>>,
                                io_lib, nobj, <<>>, <<>>, <<>>)]

\* EasyAccess.__getitem__(entry).
GetItem(entry) ==
    LET Indexing(g) ==
            /\ g_entry' = entry
            /\ g_result' = g.result
            /\ g_requests' = g.requests
            /\ proxies' = proxies \o g.made.built
            /\ client_io_lib' = g.made.lib
            /\ fetch_log' = IF g.made.built = <<>> THEN fetch_log ELSE g.made.log
            /\ fetch_count' = [io_name \in ServerIoIds |->
                                  fetch_count[io_name] + Occurrences(g.made.fetched, io_name)]
            /\ next_obj' = g.made.nobj
    IN  /\ Len(proxies) + Len(entry.names) <= MaxProxies
        /\ Indexing(getitem(entry, client_io_lib, next_obj))
        /\ UNCHANGED <<validate_vars, call_vars, registry_vars>>

\* The proxy's _io_lib as it is now: the client's dict when it is shared.
ProxyLib(proxy) == IF proxy.shared THEN client_io_lib ELSE proxy.io_lib

Init == IdleValidate /\ InitCall /\ IdleRegistry /\ IdleCache

Next ==
    \/ \E kw \in KwargsSets : CallUnsupported(kw)
    \/ \E kw \in KwargsSets : Call(kw)
    \/ Submit
    \/ Record
    \/ OpenStream
    \/ \E reply \in Replies : Poll(reply)
    \/ \E reply \in Replies, remote_open \in BOOLEAN : Query(reply, remote_open)
    \/ Finish
    \/ \E cancel_ok \in BOOLEAN : Interrupt(cancel_ok)
    \/ \E cancel_ok \in BOOLEAN : Cancel(cancel_ok)

Spec == Init /\ [][Next]_vars

\* The interpreter goes on from the end of the wait loop to the statements after it.
SpecLive == Init /\ [][Next]_vars /\ WF_vars(Finish)

InitValidateOnly == InitValidate /\ IdleCall /\ IdleRegistry /\ IdleCache

NextValidate ==
    \/ Validate
    \/ Revalidate
    \/ \E errid \in ErrIds : Lookup(errid)

SpecValidate == InitValidateOnly /\ [][NextValidate]_vars

InitRegistryOnly == IdleValidate /\ IdleCall /\ InitRegistry /\ IdleCache

NextRegistry ==
    \/ \E io_id \in IoIds, io_data \in Records : SetItem(io_id, io_data)
    \/ \E skip \in (0 - 1)..MaxPage, limit \in (0 - 1)..MaxPage : GetRecords(skip, limit)
    \/ ToJson
    \/ LoadJson

SpecRegistry == InitRegistryOnly /\ [][NextRegistry]_vars

InitCacheOnly == IdleValidate /\ IdleCall /\ IdleRegistry /\ InitCache

NextCache == \E entry \in Indexes : GetItem(entry)

SpecCache == InitCacheOnly /\ [][NextCache]_vars

(***************************************************************************)
(* Properties of the typed value model.                                    *)
(***************************************************************************)
NumberValidated == v_pc = "done" /\ v_iotype.meta = "number" /\ PyFloatOf(v_data).ok

Coerced == PyFloatOf(v_data).val

\* lo <= x and x <= hi over the reals extended with the infinities; a NaN is
\* in no order relation with a number.
AtLeast(x, lo) == x.k = "inf" \/ (x.k = "fin" /\ lo.n <= x.n)

AtMost(x, hi) == x.k = "ninf" \/ (x.k = "fin" /\ x.n <= hi.n)

BoundsHold(x, condition) ==
    /\ condition.min # PyNone => AtLeast(x, condition.min)
    /\ condition.max # PyNone => AtMost(x, condition.max)

NumericBounds(condition) ==
    /\ condition.min = PyNone \/ IsNumber(condition.min)
    /\ condition.max = PyNone \/ IsNumber(condition.max)

WellFormedBounds(condition) ==
    /\ condition.t = "dict"
    /\ NumericBounds(condition)
    /\ (condition.min # PyNone /\ condition.max # PyNone) => condition.min.n < condition.max.n

\* C2: for a value that coerces to a number and a number condition whose
\* bounds, when both given, satisfy min < max, validation returns the coerced
\* value if and only if every given bound holds inclusively (min <= value,
\* value <= max); it fails below min with NUM-MIN and above max with NUM-MAX.
C2_BoundsDecide ==
    (NumberValidated /\ WellFormedBounds(v_iotype.condition)) =>
        /\ v_result.ok <=> BoundsHold(Coerced, v_iotype.condition)
        /\ v_result.ok => v_result.val = Coerced
        /\ ~v_result.ok => v_result.err \in {"IO-META-NUM-MIN", "IO-META-NUM-MAX"}

\* C3: with both bounds given and min >= max, validating any value that
\* coerces to a number raises the min-max condition-format error.
C3_MinMaxAlwaysRaises ==
    (/\ NumberValidated
     /\ v_iotype.condition.t = "dict"
     /\ v_iotype.condition.min # PyNone
     /\ v_iotype.condition.max # PyNone
     /\ NumericBounds(v_iotype.condition)
     /\ v_iotype.condition.min.n >= v_iotype.condition.max.n) =>
        v_result = Raised("IO-META-NUM-MINMAX", "IOTypeConditionFormatError")

C3_Witness ==
    /\ NumberValidated
    /\ v_iotype.condition = CondDict(PyInt(2), PyInt(2))
    /\ Coerced = PyFloat(2)
    /\ v_result.err = "IO-META-NUM-MINMAX"

\* The language of a pattern: a text belongs to it when it can be cut into
\* one piece per atom, each piece made of characters of the atom's class and
\* of a length the atom's repetition allows.
PieceFits(atom, text, from, to) ==
    /\ from <= to
    /\ \A i \in (from + 1)..to : text[i] \in ClassChars(atom.cls)
    /\ CASE atom.rep = "one" -> to - from = 1
         [] atom.rep = "plus" -> to - from >= 1
         [] atom.rep = "star" -> TRUE
         [] atom.rep = "opt" -> to - from <= 1

InLanguage(pat, text) ==
    \E cut \in [0..Len(pat) -> 0..Len(text)] :
        /\ cut[0] = 0
        /\ cut[Len(pat)] = Len(text)
        /\ \A j \in 1..Len(pat) : PieceFits(pat[j], text, cut[j - 1], cut[j])

StringValidated == v_pc = "done" /\ v_iotype.meta = "string"

\* C4: under a regex condition a string validation returns the text if and
\* only if the whole text is in the language of the pattern, and otherwise
\* raises the no-match error; with no condition every text is returned.
C4_FullMatchDecides ==
    (StringValidated /\ v_iotype.condition.t \in {"None", "str"}) =>
        LET text == PyStrOf(v_data)
        IN  /\ v_result.ok <=>
                  (v_iotype.condition.t = "None" \/ InLanguage(v_iotype.condition.pat, text.s))
            /\ v_result.ok => v_result.val = text
            /\ ~v_result.ok => v_result = Raised("IO-META-STR-NM", "IOTypeConditionMatchError")

C4_Witness ==
    /\ StringValidated
    /\ v_iotype.condition = CondStr(<<Atom("digit", "plus")>>)
    /\ v_data = PyStr(Str12a)
    /\ v_result.err = "IO-META-STR-NM"

\* C5: a number array validated under any condition other than None raises
\* the array-condition error, whatever the elements of the array are.
C5_ArrayConditionRaises ==
    (/\ v_pc = "done"
     /\ v_iotype.meta = "numarray"
     /\ NumberArrayFormat(v_data).ok
     /\ v_iotype.condition.t # "None") =>
        v_result = Raised("IO-META-NUMARR-IRR", "IOTypeConditionFormatError")

C5_Witness ==
    /\ v_pc = "done"
    /\ v_iotype.meta = "numarray"
    /\ v_data = PyList(<<PyInt(2), PyStr(<<"1">>)>>)
    /\ v_iotype.condition = CondDict(PyNone, PyNone)
    /\ v_result.err = "IO-META-NUMARR-IRR"

(***************************************************************************)
(* Properties of a call on the proxy.                                      *)
(***************************************************************************)
CallEnded == pc = "idle" /\ outcome.kind \in {"returned", "failed", "interrupted"}

\* C1: when a call has reached a terminal outcome (the task succeeded, the
\* task failed, or the call was cancelled through an interrupt) the proxy's
\* recorded task id is absent.
C1_TaskIdClearedAtEnd == CallEnded => task_id = 0

Declared == {input_names[i] : i \in 1..Len(input_names)}

Missing(kw, name) == name \notin DOMAIN kw /\ ~inputs[name].optional

Invalid(kw, name) == name \in DOMAIN kw /\ ~IOTypeCall(inputs[name].iotype, kw[name]).ok

BadInputs(kw) == {i \in 1..Len(input_names) :
                      Missing(kw, input_names[i]) \/ Invalid(kw, input_names[i])}

FirstBad(kw) == input_names[CHOOSE i \in BadInputs(kw) : \A j \in BadInputs(kw) : i <= j]

CallStep == pc = "idle" /\ calls' = calls + 1 /\ (Polling \/ Streaming)

\* C6: a call whose argument set cannot be built (a required input is not
\* supplied, or a supplied value fails its IOType validation) raises at once:
\* the error names the missing parameter or is the validation error, no
\* request is issued to the session, no task is submitted and the proxy's
\* task id is left as it was.
C6_BuildFailureBeforeSession ==
    [][(CallStep /\ BadInputs(kwargs') # {}) =>
          /\ pc' = "idle"
          /\ outcome'.kind \in {"missing_argument", "invalid_argument"}
          /\ Missing(kwargs', FirstBad(kwargs')) =>
                 outcome' = Outcome("missing_argument", FirstBad(kwargs'))
          /\ Invalid(kwargs', FirstBad(kwargs')) =>
                 /\ outcome'.kind = "invalid_argument"
                 /\ outcome'.detail =
                        IOTypeCall(inputs[FirstBad(kwargs')].iotype, kwargs'[FirstBad(kwargs')]).err
          /\ ops' = <<>>
          /\ submitted' = submitted
          /\ next_task' = next_task
          /\ task_id' = task_id]_vars

C6_Witness ==
    /\ pc = "idle"
    /\ calls = 2
    /\ task_id = 1
    /\ "a" \notin DOMAIN kwargs
    /\ outcome = Outcome("missing_argument", "a")
    /\ ops = <<>>

Dispatched == pc \in {"record", "open", "query", "finish"}

\* C7: in the parameter set submitted for a call, a declared input the caller
\* supplied carries the result of its IOType validator on the supplied value,
\* and an optional input the caller omitted carries its default as declared.
C7_SubmittedValues ==
    Dispatched =>
        \A name \in Declared :
            /\ name \in DOMAIN submitted
            /\ name \in DOMAIN kwargs =>
                   /\ IOTypeCall(inputs[name].iotype, kwargs[name]).ok
                   /\ submitted[name] = IOTypeCall(inputs[name].iotype, kwargs[name]).val
            /\ name \notin DOMAIN kwargs =>
                   /\ inputs[name].optional
                   /\ submitted[name] = inputs[name].default

C7_Witness ==
    /\ Dispatched
    /\ kwargs = [name \in {"a"} |-> PyInt(5)]
    /\ submitted = [name \in {"a", "b"} |-> IF name = "a" THEN PyFloat(5) ELSE PyInt(1)]

(***************************************************************************)
(* Properties of the registry.                                             *)
(***************************************************************************)
\* C8: exporting a registry with to_json and loading the document into a new
\* registry gives a registry with the same ids, in the same order, and for
\* each id the same meta, id, name, doc, condition and version.
C8_JsonRoundTrip ==
    r_pc = "loaded" =>
        /\ r_error = ""
        /\ loaded_keys = io_keys
        /\ DOMAIN loaded = DOMAIN iotypes
        /\ \A io_id \in DOMAIN iotypes :
               /\ loaded[io_id].meta = iotypes[io_id].meta
               /\ loaded[io_id].id = iotypes[io_id].id
               /\ loaded[io_id].name = iotypes[io_id].name
               /\ loaded[io_id].doc = iotypes[io_id].doc
               /\ loaded[io_id].condition = iotypes[io_id].condition
               /\ loaded[io_id].version = iotypes[io_id].version

C8_Witness ==
    /\ r_pc = "loaded"
    /\ io_keys = <<"percentage", "number">>
    /\ loaded["percentage"].condition = CondDict(PyInt(0), PyInt(100))
    /\ loaded["percentage"].id = "number"
    /\ loaded["number"].condition = CondStr(<<Atom("digit", "plus")>>)

(***************************************************************************)
(* Properties of the IOType cache.                                         *)
(***************************************************************************)
SlotsOf(proxy) ==
    {[io |-> GetEntry(proxy.entry).inputs[i].io,
      inst |-> proxy.inputs[GetEntry(proxy.entry).inputs[i].param]] :
         i \in 1..Len(GetEntry(proxy.entry).inputs)}
    \cup
    {[io |-> GetEntry(proxy.entry).outputs[i].io,
      inst |-> proxy.outputs[GetEntry(proxy.entry).outputs[i].param]] :
         i \in 1..Len(GetEntry(proxy.entry).outputs)}

\* C9: the parameters of a proxy that name the same IOType id hold the same
\* instance, the one in the proxy's cache, and the construction of the proxy
\* asked the session for no id twice.
C9_ResolvedOnce ==
    /\ \A i \in 1..Len(proxies) :
           \A s1, s2 \in SlotsOf(proxies[i]) :
               /\ s1.io = s2.io => s1.inst.obj = s2.inst.obj
               /\ s1.io \in DOMAIN ProxyLib(proxies[i])
               /\ ProxyLib(proxies[i])[s1.io].obj = s1.inst.obj
    /\ \A io_name \in ServerIoIds : Occurrences(fetch_log, io_name) <= 1

C9_Witness ==
    /\ Len(proxies) >= 1
    /\ proxies[Len(proxies)].entry = "echo"
    /\ fetch_log = <<"text">>
    /\ proxies[Len(proxies)].inputs["s"].obj = proxies[Len(proxies)].outputs["s"].obj

\* C10: every IOType a proxy fetched while it was constructed is afterwards
\* in the cache the client passed to it, whatever the cache held before, so
\* that over the constructions sharing the cache each id is fetched at most
\* once.
C10_FetchedIsShared ==
    /\ \A i \in 1..Len(fetch_log) : fetch_log[i] \in DOMAIN client_io_lib
    /\ \A io_name \in ServerIoIds : fetch_count[io_name] <= 1

StreamQueryStep == pc = "query" /\ Streaming /\ ops' = Append(ops, Op("get", tid))

(***************************************************************************)
(* C11: in streaming mode the wait loop is left by the very query after    *)
(* which the connection reports not connected, also when the reply has no  *)
(* success key: that query is the last one of the call and the loop body   *)
(* (a progress update, a further query) does not run again.                *)
(***************************************************************************)
C11_DisconnectEndsWait ==
    [][(StreamQueryStep /\ ~connected')
          => (pc' = "finish" /\ polls' = polls /\ updates' = updates)]_vars

\* A stream that closed without ever yielding a success key: the wait is over.
C11_Witness ==
    /\ Streaming
    /\ pc = "finish"
    /\ ~connected
    /\ ~response.has_success
    /\ polls > 0

WaitEnded == pc = "finish" /\ pc' = "idle"

(***************************************************************************)
(* C12: a call whose wait ended finishes in one of two ways, decided by    *)
(* the last response: it returns the output of a response reporting        *)
(* success, or raises a failure carrying the output of a response          *)
(* reporting success false; there is no third way.                         *)
(***************************************************************************)
C12_TwoOutcomes ==
    [][WaitEnded =>
          \/ response.has_success /\ response.success
                /\ outcome' = Outcome("returned", response.output)
          \/ response.has_success /\ ~response.success
                /\ outcome' = Outcome("failed", response.output)]_vars

Registered == DOMAIN error_stack

(***************************************************************************)
(* C13: a lookup in the error stack never returns normally.  For a         *)
(* registered id it raises the registered kind with the message            *)
(* "[<id>] <info>"; for any other id it raises the fallback, a             *)
(* RuntimeError "[ERR-UNKNOWN] Unknown error", never a missing-key         *)
(* failure.  So a validation under an accepted meta type returns a value   *)
(* (never an absent one in place of an error) or raises.                   *)
(***************************************************************************)
C13_LookupAlwaysRaises ==
    /\ v_lookup.done =>
          /\ ~v_lookup.raised.ok
          /\ v_lookup.errid \in Registered =>
                /\ v_lookup.raised.err = v_lookup.errid
                /\ v_lookup.raised.kind = error_stack[v_lookup.errid]
                /\ v_lookup.msg = "[" \o v_lookup.errid \o "] " \o error_info[v_lookup.errid]
          /\ v_lookup.errid \notin Registered =>
                /\ v_lookup.raised.kind = "RuntimeError"
                /\ v_lookup.raised.kind # "KeyError"
                /\ v_lookup.msg = "[ERR-UNKNOWN] Unknown error"
    /\ (v_pc = "done" /\ v_iotype.meta \in accept_meta_types) =>
          \/ v_result.ok /\ v_result.val # PyNone
          \/ ~v_result.ok /\ v_result.val = PyNone /\ v_result.kind # ""

\* An unregistered id was looked up after a validation that raised.
C13_Witness ==
    /\ v_lookup.done
    /\ v_lookup.errid = "IO-META-BOOL"
    /\ v_pc = "done"
    /\ ~v_result.ok
    /\ v_iotype.meta = "number"

\* The causes of a validation failure, read off the value and the condition.
Validated == v_pc = "done" /\ v_iotype.meta \in accept_meta_types

Coerces ==
    CASE v_iotype.meta = "number" -> PyFloatOf(v_data).ok
      [] v_iotype.meta = "numarray" ->
            /\ v_data.t \in {"list", "str"}
            /\ \A i \in 1..Len(IterItems(v_data)) : PyFloatOf(IterItems(v_data)[i]).ok
      [] OTHER -> TRUE

MetaErrorId ==
    CASE v_iotype.meta = "number" -> "IO-META-NUM"
      [] v_iotype.meta = "numarray" -> "IO-META-NUMARR"
      [] OTHER -> "IO-META-STR"

\* The structurally invalid conditions and the id each one is reported with.
MalformedId ==
    LET c == v_iotype.condition
    IN  CASE c.t = "None" -> ""
          [] v_iotype.meta = "numarray" -> "IO-META-NUMARR-IRR"
          [] v_iotype.meta = "number" /\ c.t # "dict" -> "IO-META-NUM-IRR"
          [] v_iotype.meta = "string" /\ c.t # "str" -> "IO-META-STR-IRR"
          [] v_iotype.meta = "number" /\ NumericBounds(c) /\ c.min # PyNone /\ c.max # PyNone
                /\ c.min.n >= c.max.n -> "IO-META-NUM-MINMAX"
          [] OTHER -> ""

\* The violation of a well-formed condition by the coerced value.
MismatchId ==
    LET c == v_iotype.condition
    IN  CASE v_iotype.meta = "number" /\ c.t = "dict" /\ NumericBounds(c) /\ c.min # PyNone
                /\ FloatLT(Coerced, PyFloatOf(c.min).val) -> "IO-META-NUM-MIN"
          [] v_iotype.meta = "number" /\ c.t = "dict" /\ NumericBounds(c) /\ c.max # PyNone
                /\ FloatGT(Coerced, PyFloatOf(c.max).val) -> "IO-META-NUM-MAX"
          [] v_iotype.meta = "string" /\ c.t = "str"
                /\ ~InLanguage(c.pat, PyStrOf(v_data).s) -> "IO-META-STR-NM"
          [] OTHER -> ""

ErrorKinds == {"IOTypeMetaError", "IOTypeConditionFormatError", "IOTypeConditionMatchError"}

(***************************************************************************)
(* C14: every failure of a validation under an accepted meta type raises   *)
(* the kind of its cause: a meta error (NUM, NUMARR, STR) when the value   *)
(* cannot be coerced, a condition-format error (NUM-IRR, NUM-MINMAX,       *)
(* STR-IRR, NUMARR-IRR) when the condition is structurally invalid, a      *)
(* condition-match error (NUM-MIN, NUM-MAX, STR-NM) when the coerced value *)
(* violates a well-formed condition; no failure is of another kind.        *)
(***************************************************************************)
C14_KindMatchesCause ==
    Validated =>
        /\ ~Coerces => v_result = Raised(MetaErrorId, "IOTypeMetaError")
        /\ (Coerces /\ MalformedId # "") =>
              v_result = Raised(MalformedId, "IOTypeConditionFormatError")
        /\ (Coerces /\ MalformedId = "" /\ MismatchId # "") =>
              v_result = Raised(MismatchId, "IOTypeConditionMatchError")
        /\ ~v_result.ok => v_result.kind \in ErrorKinds

\* A step of cancel(): between calls, and not the start of a call.
CancelStep == pc = "idle" /\ pc' = "idle" /\ calls' = calls /\ vars' # vars

(***************************************************************************)
(* C15: cancel() without a tracked task id sends nothing to the session    *)
(* and leaves the proxy as it was; with a tracked id it sends exactly one  *)
(* cancel request, for that id, returns normally whether the session       *)
(* reports the cancellation as done or as failed, and the id is absent     *)
(* afterwards.                                                             *)
(***************************************************************************)
C15_CancelEffect ==
    [][CancelStep =>
          /\ outcome'.kind = "cancel"
          /\ task_id' = 0
          /\ UNCHANGED <<mode, kwargs, submitted, next_task>>
          /\ task_id = 0 => ops' = ops /\ outcome'.detail = "no task"
          /\ task_id # 0 =>
                /\ ops' = Append(ops, Op("cancel", task_id))
                /\ outcome'.detail \in {"cancelled", "failed to be cancelled"}]_vars

\* A cancel of a tracked task that the session reported as failed.
C15_Witness ==
    /\ pc = "idle"
    /\ outcome = Outcome("cancel", "failed to be cancelled")
    /\ task_id = 0
    /\ Len(ops) >= 1
    /\ ops[Len(ops)].op = "cancel"
    /\ ops[Len(ops)].task # 0

\* A step that opens the stream or asks for the state of the task.
WaitRequest ==
    /\ Len(ops') = Len(ops) + 1
    /\ ops'[Len(ops')].op \in {"open", "status", "get"}

(***************************************************************************)
(* C16: within one call, in both modes, submit comes before the stream is  *)
(* opened and before the first status request or stream query; the id      *)
(* submit returned is on the proxy by then, and every such request of the  *)
(* call is for that id.                                                    *)
(***************************************************************************)
C16_SubmitThenRecordThenWait ==
    [][WaitRequest =>
          /\ Len(ops) >= 1
          /\ ops[1].op = "submit"
          /\ ops'[Len(ops')].task = ops[1].task
          /\ task_id = ops[1].task]_vars

\* The second call of a streaming proxy has queried its stream.
C16_Witness ==
    /\ Streaming
    /\ calls = 2
    /\ Len(ops) >= 3
    /\ ops[1] = Op("submit", 2)
    /\ ops[2] = Op("open", 2)
    /\ ops[3] = Op("get", 2)
    /\ task_id = 2

(***************************************************************************)
(* C17: whoever reads the proxy's task id sees no task or the id of the    *)
(* task of the latest dispatch while that task is still in flight; never   *)
(* the id of a task that has completed, failed or been cancelled.          *)
(***************************************************************************)
C17_ObserverSeesInFlight ==
    task_id # 0 => (pc \in {"open", "query", "finish"} /\ task_id = tid)

\* An interrupt caught while the call waits for its recorded task.
InterruptedWait == pc \in {"open", "query"} /\ pc' = "idle"

(***************************************************************************)
(* C18: an interrupt caught while a call waits for its task, the id being  *)
(* recorded, makes the proxy send a cancel request for that id before the  *)
(* interrupt reaches the caller; the interrupt is re-raised whatever the   *)
(* session answers, and the id is absent afterwards.                       *)
(***************************************************************************)
C18_InterruptCancelsThenRaises ==
    [][InterruptedWait =>
          /\ task_id # 0
          /\ task_id = tid
          /\ ops' = Append(ops, Op("cancel", task_id))
          /\ outcome'.kind = "interrupted"
          /\ task_id' = 0]_vars

\* An interrupted wait whose cancellation the session reported as failed.
C18_Witness ==
    /\ pc = "idle"
    /\ outcome = Outcome("interrupted", "failed to be cancelled")
    /\ task_id = 0
    /\ Len(ops) >= 3
    /\ ops[1].op = "submit"
    /\ ops[Len(ops)] = Op("cancel", ops[1].task)

\* A step of stack[io_id] = io_data; the key and the record are in r_input'.
AddStep == r_pc = "build" /\ r_pc' = "build" /\ r_listing' = r_listing /\ vars' # vars

HasRequired(rec) == RequiredSet \subseteq DOMAIN rec

(***************************************************************************)
(* C19: adding a record to the registry succeeds only if the record has    *)
(* exactly the fields id, meta, name, doc, version, condition; a record    *)
(* that lacks one of them fails with a format error naming its key and     *)
(* nothing is stored under that key; a record that does not consist of     *)
(* exactly these fields is not accepted.                                   *)
(***************************************************************************)
C19_ExactFieldsOnly ==
    [][AddStep =>
          /\ r_error' = "" => DOMAIN r_input'.io_data = RequiredSet
          /\ ~HasRequired(r_input'.io_data) =>
                /\ r_error' = r_input'.io_id
                /\ iotypes' = iotypes
                /\ io_keys' = io_keys]_vars

(***************************************************************************)
(* C19, as the registry behaves: adding a record succeeds exactly when the *)
(* record has all of the fields id, meta, name, doc, version, condition;   *)
(* fields beyond these are dropped and the IOType built from the six is    *)
(* stored under the key, the other keys keeping their entries.  A record   *)
(* that lacks one of the six fails with a format error naming its key and  *)
(* the registry stays as it was.                                           *)
(***************************************************************************)
C19_RequiredFieldsDecide ==
    [][AddStep =>
          LET key == r_input'.io_id
              rec == r_input'.io_data
          IN  /\ r_error' = "" <=> HasRequired(rec)
              /\ HasRequired(rec) =>
                    /\ DOMAIN iotypes' = DOMAIN iotypes \cup {key}
                    /\ iotypes'[key] = IOType(rec["meta"], rec["id"], rec["name"], rec["doc"],
                                              rec["condition"], rec["version"])
                    /\ \A other \in DOMAIN iotypes \ {key} : iotypes'[other] = iotypes[other]
              /\ ~HasRequired(rec) =>
                    /\ r_error' = key
                    /\ iotypes' = iotypes
                    /\ io_keys' = io_keys]_vars

\* A record with a field beyond the required six was added and is stored.
C19_Witness ==
    /\ r_input.io_data \in ExtraRecords
    /\ r_input.io_id = "percentage"
    /\ r_error = ""
    /\ "percentage" \in DOMAIN iotypes
    /\ iotypes["percentage"] = IOType("number", "number", "n-number", "about number", CondNone, "1.0")

\* A step of get_records; the arguments and the result are in r_listing'.
ListStep == r_listing' # r_listing

(***************************************************************************)
(* C20: for skip >= 0 the paginated listing returns, in insertion order,   *)
(* the ids at positions skip .. skip+limit-1 when limit > 0 (fewer when    *)
(* the registry ends first, none when skip is past the end) and all ids    *)
(* from position skip on when limit <= 0; the registry is not changed.     *)
(***************************************************************************)
C20_Pagination ==
    [][(ListStep /\ r_listing'.skip >= 0) =>
          LET n == Len(io_keys)
              skip == r_listing'.skip
              limit == r_listing'.limit
              last == IF limit > 0 /\ skip + limit < n THEN skip + limit ELSE n
              count == IF last > skip THEN last - skip ELSE 0
          IN  /\ Len(r_listing'.ids) = count
              /\ \A i \in 1..count : r_listing'.ids[i] = io_keys[skip + i]
              /\ UNCHANGED <<iotypes, io_keys>>]_vars

\* A listing with limit 0 that skipped the first of two ids.
C20_Witness ==
    /\ r_listing.done
    /\ r_listing.skip = 1
    /\ r_listing.limit = 0
    /\ Len(io_keys) = 2
    /\ r_listing.ids = <<io_keys[2]>>

(***************************************************************************)
(* C21: an IOType whose meta is none of string, number, numarray never     *)
(* validates: for every value and every condition the call fails with the  *)
(* lookup failure (KeyError), and no validator of another kind is applied. *)
(***************************************************************************)
C21_UnknownMetaFailsLookup ==
    (v_pc = "done" /\ v_iotype.meta \notin {"string", "number", "numarray"}) =>
        v_result = Raised("KeyError", "KeyError")

\* A value every recognised kind accepts, validated under an unrecognised meta.
C21_Witness ==
    /\ v_pc = "done"
    /\ v_iotype.meta = "bool"
    /\ v_iotype.condition = CondNone
    /\ v_data = PyInt(1)
    /\ v_result.kind = "KeyError"

(***************************************************************************)
(* C22: validation formats, then checks, and the first failing step        *)
(* decides the error.  A value that cannot be coerced raises the meta      *)
(* error of its kind whatever the condition is; a condition error is only  *)
(* raised for a value that coerced; in the number check the min-max error  *)
(* comes before the bound errors, so a value outside the bounds of a       *)
(* condition with min >= max raises the min-max error.                     *)
(***************************************************************************)
C22_FormatThenCheck ==
    Validated =>
        /\ ~Coerces => v_result = Raised(MetaErrorId, "IOTypeMetaError")
        /\ v_result.kind \in {"IOTypeConditionFormatError", "IOTypeConditionMatchError"} => Coerces
        /\ (/\ v_iotype.meta = "number"
            /\ Coerces
            /\ v_iotype.condition.t = "dict"
            /\ IsNumber(v_iotype.condition.min)
            /\ IsNumber(v_iotype.condition.max)
            /\ v_iotype.condition.min.n >= v_iotype.condition.max.n) =>
              v_result.err = "IO-META-NUM-MINMAX"
        /\ v_result.err \in {"IO-META-NUM-MIN", "IO-META-NUM-MAX"} =>
              ~(/\ IsNumber(v_iotype.condition.min)
                /\ IsNumber(v_iotype.condition.max)
                /\ v_iotype.condition.min.n >= v_iotype.condition.max.n)

\* A value that cannot be coerced, under a structurally invalid condition.
C22_Witness ==
    /\ v_pc = "done"
    /\ v_iotype.meta = "number"
    /\ v_iotype.condition = CondOther
    /\ v_data = PyStr(<<"a">>)
    /\ v_result = Raised("IO-META-NUM", "IOTypeMetaError")

\* The spellings of the supported modes among the configured ones, and the
\* start of a call.
PollingModes == {"http", "HTTP", "https"}

StreamingModes == {"socket", "WebSocket"}

CallStart == pc = "idle" /\ calls' = calls + 1

(***************************************************************************)
(* C23: a call picks its wait strategy from the configured mode, letter    *)
(* case ignored: http and https poll (status requests only), socket and    *)
(* websocket stream (a stream is opened and queried); any other mode makes *)
(* the call raise the unsupported-mode error before an argument is         *)
(* validated and before any session operation.  A proxy exists with an     *)
(* unsupported mode until it is called.                                    *)
(***************************************************************************)
C23_ModeSelectsStrategy ==
    /\ [](\A i \in 1..Len(ops) :
              /\ ops[i].op = "status" => mode \in PollingModes
              /\ ops[i].op \in {"open", "get"} => mode \in StreamingModes)
    /\ [][CallStart =>
              IF mode \in PollingModes \cup StreamingModes
              THEN outcome'.kind # "mode_error"
              ELSE /\ outcome' = Outcome("mode_error", mode)
                   /\ pc' = "idle"
                   /\ ops' = <<>>
                   /\ UNCHANGED <<task_id, submitted, next_task>>]_vars

\* A proxy in an unsupported mode was called with an argument that would not
\* have passed validation.
C23_Witness ==
    /\ mode = "ftp"
    /\ outcome = Outcome("mode_error", "ftp")
    /\ "a" \in DOMAIN kwargs
    /\ kwargs["a"] = PyInt(150)
    /\ ops = <<>>

\* The status requests a call has issued, and a step that issues one.
StatusRequests == Cardinality({i \in 1..Len(ops) : ops[i].op = "status"})

PollStep == Polling /\ pc = "query" /\ ops' = Append(ops, Op("status", tid))

(***************************************************************************)
(* C24: in polling mode the proxy asks for the task status until a         *)
(* response has the success key.  Each response without it is passed to    *)
(* the progress reporter once, by its status text, and is followed by      *)
(* another request; the response with it ends the loop, no status request  *)
(* follows it, the requests number one more than the responses without the *)
(* key, and the call then ends.                                            *)
(***************************************************************************)
C24_PollingLoop ==
    /\ []((Polling /\ pc = "query") => (StatusRequests = polls /\ Len(updates) = polls))
    /\ []((Polling /\ pc = "finish") =>
              /\ response.has_success
              /\ StatusRequests = polls + 1
              /\ Len(updates) = polls
              /\ ops[Len(ops)].op = "status")
    /\ [][PollStep =>
              IF response'.has_success
              THEN pc' = "finish" /\ updates' = updates
              ELSE pc' = "query" /\ updates' = Append(updates, response'.status)]_vars
    /\ [][(Polling /\ pc = "finish") => ops' = ops]_vars
    /\ ((Polling /\ pc = "finish") ~> (pc = "idle"))

\* Two responses without the key, with different status texts, then the one with it.
C24_Witness ==
    /\ Polling
    /\ pc = "finish"
    /\ updates = <<"queued", "running">>
    /\ response = Succeeded
    /\ StatusRequests = 3

(***************************************************************************)
(* C25: in streaming mode the first reply with a success key makes the     *)
(* client close the connection as soon as it has read it; the proxy sends  *)
(* no get query after that reply, and the call returns the output of that  *)
(* reply or raises with it.                                                *)
(***************************************************************************)
C25_SuccessReplyClosesStream ==
    /\ [][(StreamQueryStep /\ response'.has_success) =>
              (~connected' /\ pc' = "finish")]_vars
    /\ [][(Streaming /\ pc = "finish") => (ops' = ops /\ response' \in {response, NoResponse})]_vars
    /\ [][(Streaming /\ WaitEnded /\ response.has_success) =>
              /\ ops[Len(ops)] = Op("get", task_id)
              /\ outcome' = Outcome(IF response.success THEN "returned" ELSE "failed",
                                    response.output)]_vars

\* A stream that was queried twice and closed on a reply reporting failure.
C25_Witness ==
    /\ Streaming
    /\ pc = "idle"
    /\ outcome = Outcome("failed", "task error")
    /\ Len(ops) = 4
    /\ ops[3].op = "get"
    /\ ops[4].op = "get"

Indexed == g_result # NoItem

(***************************************************************************)
(* C26: indexing the client by a name that is not an entry raises          *)
(* not-found, constructs no proxy and requests no entry metadata; indexing *)
(* by a list or tuple raises not-found for its first unknown name before   *)
(* the batch metadata request, so a list builds a proxy for every name or  *)
(* none; indexing by a value of another type raises an index error.        *)
(***************************************************************************)
C26_IndexingChecksFirst ==
    /\ [](Indexed =>
            /\ (g_entry.t = "str" /\ g_entry.names[1] \notin Entries)
                   => (g_result = NotFound(g_entry.names[1]) /\ g_requests = <<>>)
            /\ (g_entry.t \in {"list", "tuple"} /\ UnknownNames(g_entry.names) # {})
                   => (g_result = NotFound(FirstMissing(g_entry.names)) /\ g_requests = <<>>)
            /\ (g_entry.t \in {"list", "tuple"} /\ UnknownNames(g_entry.names) = {})
                   => (g_result.kind = "dict" /\ g_requests = <<Req("batch", g_entry.names)>>)
            /\ g_entry.t \notin {"str", "list", "tuple"}
                   => (g_result.kind = "IndexError" /\ g_requests = <<>>))
    /\ [][g_result'.kind \in {"ModuleNotFoundError", "IndexError"}
              => (proxies' = proxies /\ fetch_count' = fetch_count)]_vars
    /\ [][(g_result'.kind = "dict" /\ g_entry' # g_entry)
              => /\ Len(proxies') = Len(proxies)
                                    + Cardinality({g_entry'.names[i] :
                                                      i \in 1..Len(g_entry'.names)})
                 /\ \A i \in 1..Len(g_entry'.names) :
                        \E k \in (Len(proxies) + 1)..Len(proxies') :
                            proxies'[k].entry = g_entry'.names[i]]_vars

\* A client that built a proxy and then was indexed by a list whose second name is
\* unknown: the known first name produced no further proxy.
C26_Witness ==
    /\ g_entry = SeqIndex("list", <<"add", "ghost">>)
    /\ g_result = NotFound("ghost")
    /\ g_requests = <<>>
    /\ Len(proxies) = 1

\* The interrupt handler runs while the call is at its submit or has its new task id
\* in the local only.
InterruptBeforeRecord == pc \in {"submit", "record"} /\ outcome'.kind = "interrupted"

(***************************************************************************)
(* C27: a cancel request issued on behalf of a call targets the task that  *)
(* call submitted: an interrupt that arrives during the submit of a call,  *)
(* before the new task id is recorded, causes no cancel request for the    *)
(* task of an earlier call.                                                *)
(***************************************************************************)
C27_CancelTargetsOwnTask ==
    [][InterruptBeforeRecord =>
          \A i \in (Len(ops) + 1)..Len(ops') :
              ops'[i].op = "cancel" => (tid # 0 /\ ops'[i].task = tid)]_vars

SubmitStep == pc = "submit" /\ pc' = "record"

(***************************************************************************)
(* C28: the parameter set submitted for a call has exactly the declared    *)
(* input names as its keys, each with the validated value of the argument  *)
(* or, when the argument is absent, the default; a named argument that is  *)
(* not a declared input is not submitted and does not make the call fail.  *)
(***************************************************************************)
C28_SubmittedKeysAreDeclared ==
    /\ [][SubmitStep =>
              /\ DOMAIN submitted' = Declared
              /\ \A name \in Declared :
                     submitted'[name] =
                         IF name \in DOMAIN kwargs
                         THEN IOTypeCall(inputs[name].iotype, kwargs[name]).val
                         ELSE inputs[name].default]_vars
    /\ [][CallStep =>
              (pc' = "submit" <=>
                   \A name \in Declared : ~Missing(kwargs', name) /\ ~Invalid(kwargs', name))]_vars

\* A call given a, not b, and the undeclared z has submitted a and the default of b.
C28_Witness ==
    /\ pc = "record"
    /\ DOMAIN kwargs = {"a", "z"}
    /\ DOMAIN submitted = {"a", "b"}
    /\ submitted["b"] = inputs["b"].default
    /\ ops = <<Op("submit", tid)>>

ValidationStep == v_pc \in {"input", "done"} /\ v_pc' # v_pc

(***************************************************************************)
(* C29: validation is idempotent for every kind: when validating a raw     *)
(* value under an IOType returns v, validating v under the same IOType     *)
(* returns v again (a number, a number array in the same order, a string), *)
(* and a validation changes neither the IOType nor its condition.          *)
(***************************************************************************)
C29_ValidationIdempotent ==
    /\ [](v_pc = "again" => v_result = Ok(v_data))
    /\ [][(v_pc = "done" /\ v_result.ok) =>
              (v_pc' = "again" => v_data' = v_result.val)]_vars
    /\ [][ValidationStep => v_iotype' = v_iotype]_vars

\* A two-item array validated a second time comes back item by item.
C29_Witness ==
    /\ v_pc = "again"
    /\ v_iotype.meta = "numarray"
    /\ v_data = PyList(<<PyFloat(2), PyFloat(1)>>)
    /\ v_result = Ok(v_data)

\* cancel() with no call since the cancel() before it.
CancelAfterCancel == CancelStep /\ outcome.kind = "cancel"

(***************************************************************************)
(* C30: after one cancel() that found a tracked task, further cancel()     *)
(* calls with no call in between issue no cancel request: the first one    *)
(* cleared the task id whether or not the session reported the             *)
(* cancellation as successful.                                             *)
(***************************************************************************)
C30_CancelIdempotent ==
    /\ []((pc = "idle" /\ outcome.kind = "cancel") => task_id = 0)
    /\ [][CancelAfterCancel => (ops' = ops /\ outcome'.detail = "no task")]_vars

\* A cancel() that sent its request for the tracked task, then a cancel() that
\* found no task and sent nothing.
C30_Witness ==
    /\ pc = "idle"
    /\ outcome = Outcome("cancel", "no task")
    /\ Len(ops) >= 1
    /\ ops[Len(ops)].op = "cancel"
    /\ Cardinality({i \in 1..Len(ops) : ops[i].op = "cancel"}) = 1
    /\ task_id = 0

====
